---- MODULE Spec2Model ----
(***************************************************************************)
(* Verification model of the didymos-backend clustering core:              *)
(*   - services/entity_cluster_service.py  (merge_cluster_assignments)     *)
(*   - services/cluster_service.py         (centrality, hubs, fallback     *)
(*                                          chain, cluster cache)          *)
(*   - api/routes_graph.py                 (get_clustered_vault_graph)     *)
(* Three specifications share the module: Spec (cache and request state    *)
(* machine), SpecMerge (merge_cluster_assignments as a function of its     *)
(* inputs) and SpecCentrality (centrality scoring and hub selection).      *)
(***************************************************************************)
EXTENDS Integers, Sequences, FiniteSets, TLC

VARIABLES
    m_graph,    \* SpecMerge: graph_clusters argument (dict uuid -> int)
    m_emb,      \* SpecMerge: embedding_clusters argument (dict uuid -> int)
    m_final,    \* SpecMerge: returned dict, or NoResult before the call
    m_pc,       \* SpecMerge: "input" before the call, "done" after
    c_notes,    \* SpecCentrality: note_ids, the document window W
    c_mentions, \* SpecCentrality: MENTIONS edges <<note, entity>> of the window
    c_black,    \* SpecCentrality: entities whose name or id is blacklisted
    c_info,     \* SpecCentrality: returned entity_info, or NoResult
    c_order,    \* SpecCentrality: row order of the degree query (dict order)
    c_hubs,     \* SpecCentrality: hubs returned by find_cluster_hub_entities
    c_pick,     \* SpecCentrality: a call with explicit top_k and exclude_generic
    c_pc,       \* SpecCentrality: "input", "scored", "done"
    vault_notes,     \* the vault's Note nodes: note id -> [updated_at, embedding]
    vault_mentions,  \* MENTIONS edges <<note, entity>> of the vault
    CLUSTERING_AVAILABLE,  \* umap and hdbscan were importable
    now,        \* the database clock datetime(), in hours
    cache,      \* the vault's ClusterCache node, or NoCache
    warm,       \* the running background_warmup threads
    response,   \* what get_clustered_vault_graph returned in the step just taken
    o_call,     \* SpecOrch: outcome of a direct compute_clusters_semantic call
    o_route,    \* SpecOrch: outcome of the request's compute section
    o_pc,       \* SpecOrch: "input" before the call, "done" after
    s_computed_at,  \* SpecStale: the computed_at argument of the staleness check
    s_stale,    \* SpecStale: what is_cluster_cache_stale returned, or NoResult
    s_pc,       \* SpecStale: "input" before the call, "done" after
    h_last,     \* SpecCache: arguments of the last save that returned True, NoCache
                \* after an invalidate that returned True (history)
    q_got,      \* SpecCache: what the last get_cached_clusters call returned
    l_in,       \* SpecLouvain: entity_uuids, edges, NETWORKX_AVAILABLE
    l_out,      \* SpecLouvain: the dict cluster_by_graph_louvain returned
    l_pc,       \* SpecLouvain: "input" before the call, "done" after
    t_entities, \* SpecType: the entities argument of _simple_clustering
    t_clusters, \* SpecType: the list _simple_clustering returned
    t_pc,       \* SpecType: "input" before the call, "done" after
    a_args,     \* the arguments of one call of a function checked on its own
    a_result,   \* what that call returned
    a_pc        \* "input" before that call, "done" after

(***************************************************************************)
(* Generic helpers                                                         *)
(***************************************************************************)
NoResult == [none |-> TRUE]

SetMax(S) == CHOOSE x \in S : \A y \in S : y <= x

Range(f) == {f[x] : x \in DOMAIN f}

SeqToSet(s) == {s[i] : i \in 1..Len(s)}

\* all orderings of a finite set, as sequences without repetition
Orderings(S) ==
    {s \in [1..Cardinality(S) -> S] : \A i, j \in 1..Cardinality(S) : i # j => s[i] # s[j]}

RECURSIVE FilterSeq(_, _)
FilterSeq(s, keep) ==
    IF s = <<>> THEN <<>>
    ELSE IF Head(s) \in keep THEN <<Head(s)>> \o FilterSeq(Tail(s), keep)
         ELSE FilterSeq(Tail(s), keep)

(***************************************************************************)
(* Exact rational arithmetic for the scores (numerator over denominator)   *)
(***************************************************************************)
RECURSIVE Gcd(_, _)
Gcd(a, b) == IF b = 0 THEN a ELSE Gcd(b, a % b)

Abs(x) == IF x < 0 THEN -x ELSE x

Rat(n, d) == LET g == Gcd(Abs(n), d) IN [n |-> n \div g, d |-> d \div g]

RAdd(x, y) == Rat(x.n * y.d + y.n * x.d, x.d * y.d)
RSub(x, y) == Rat(x.n * y.d - y.n * x.d, x.d * y.d)
RMul(x, y) == Rat(x.n * y.n, x.d * y.d)
RLeq(x, y) == x.n * y.d <= y.n * x.d
RLess(x, y) == x.n * y.d < y.n * x.d
RMin(x, y) == IF RLeq(x, y) THEN x ELSE y
RMax(x, y) == IF RLeq(x, y) THEN y ELSE x
RZero == Rat(0, 1)
ROne == Rat(1, 1)

(***************************************************************************)
(* cluster_service.compute_entity_graph_centrality                         *)
(***************************************************************************)
\* bound of the document window; the entity universe of the window
MaxWin == 4
Ents == {"A", "B", "C"}

\* connected_notes of the degree query: notes of the window mentioning e
ConnectedNotes(note_ids, mentions, e) == {n \in note_ids : <<n, e>> \in mentions}

\* rows of the degree query: entities mentioned by at least one window note
DegreeRows(note_ids, mentions) ==
    {e \in Ents : ConnectedNotes(note_ids, mentions, e) # {}}

\* co_occurrence_count: one increment per row (e1, e2) of the pair query,
\* i.e. per other entity sharing at least one window note
CoOccurrenceCount(note_ids, mentions, e) ==
    Cardinality({f \in DegreeRows(note_ids, mentions) \ {e} :
        ConnectedNotes(note_ids, mentions, e)
            \cap ConnectedNotes(note_ids, mentions, f) # {}})

\* max(co_occurrence_count.values(), default=1); the defaultdict only holds
\* entities that occur in some pair row
MaxCooccurrence(note_ids, mentions) ==
    LET counts == {CoOccurrenceCount(note_ids, mentions, e) :
                      e \in DegreeRows(note_ids, mentions)} \ {0}
    IN IF counts = {} THEN 1 ELSE SetMax(counts)

IntMax(a, b) == IF a >= b THEN a ELSE b

\* mutant: the degree is not normalised by the window size
DegreeCentrality_Raw(degree, total_notes) == Rat(degree, 1)

\* degree / max(total_notes, 1)
DegreeCentrality(degree, total_notes) == Rat(degree, IntMax(total_notes, 1))

\* min(1.0, len(connected) / max(3, total_notes * 0.2)) if len(connected) > 1
BridgeScore(degree, total_notes) ==
    IF degree > 1
    THEN RMin(ROne, RMul(Rat(degree, 1),
                         Rat(5, IntMax(15, total_notes))))
    ELSE RZero

\* max(0.3, 1.0 - (cluster_coverage - 0.5) * 1.5) above 50% coverage, else 1.0
IdfWeight(degree, total_notes) ==
    IF total_notes > 0 /\ degree > 0 /\ 2 * degree > total_notes
    THEN RMax(Rat(3, 10),
              RSub(ROne, RMul(RSub(Rat(degree, total_notes), Rat(1, 2)), Rat(3, 2))))
    ELSE ROne

\* 0.1 if is_generic else 1.0
GenericPenalty(is_generic) == IF is_generic THEN Rat(1, 10) ELSE ROne

\* 0.30 * degree + 0.25 * co-occurrence + 0.25 * bridge + 0.20 * idf
RawCentrality(dc, co, br, idf) ==
    RAdd(RAdd(RMul(Rat(30, 100), dc), RMul(Rat(25, 100), co)),
         RAdd(RMul(Rat(25, 100), br), RMul(Rat(20, 100), idf)))

\* entity_info: one record per row of the degree query
compute_entity_graph_centrality(note_ids, mentions, blacklisted) ==
    LET total_notes == Cardinality(note_ids)
        max_cooccurrence == MaxCooccurrence(note_ids, mentions)
    IN [e \in (IF note_ids = {} THEN {} ELSE DegreeRows(note_ids, mentions)) |->
          LET degree == Cardinality(ConnectedNotes(note_ids, mentions, e))
              co_count == CoOccurrenceCount(note_ids, mentions, e)
              dc == DegreeCentrality(degree, total_notes)
              co == Rat(co_count, IntMax(max_cooccurrence, 1))
              br == BridgeScore(degree, total_notes)
              idf == IdfWeight(degree, total_notes)
          IN [degree |-> degree,
              degree_centrality |-> dc,
              co_occurrence_count |-> co_count,
              co_occurrence_score |-> co,
              bridge_score |-> br,
              idf_weight |-> idf,
              is_generic |-> e \in blacklisted,
              centrality_score |->
                  RMul(RawCentrality(dc, co, br, idf),
                       GenericPenalty(e \in blacklisted))]]

(***************************************************************************)
(* cluster_service.find_cluster_hub_entities                               *)
(***************************************************************************)
\* default top_k
TopK == 3

\* sorted(items, key=centrality_score, reverse=True): a stable sort, equal
\* scores keep their input order
RECURSIVE SortByScoreDesc(_, _)
SortByScoreDesc(items, entity_info) ==
    IF items = <<>> THEN <<>>
    ELSE LET Score(i) == entity_info[items[i]].centrality_score
             top == CHOOSE i \in 1..Len(items) :
                       /\ \A j \in 1..Len(items) : RLeq(Score(j), Score(i))
                       /\ \A j \in 1..(i - 1) : RLess(Score(j), Score(i))
             rest == [k \in 1..(Len(items) - 1) |->
                         IF k < top THEN items[k] ELSE items[k + 1]]
         IN <<items[top]>> \o SortByScoreDesc(rest, entity_info)

Take(s, k) == IF Len(s) <= k THEN s ELSE SubSeq(s, 1, k)

\* mutant: nothing is appended after the filtered entities
Backfill_None(result, all_sorted, top_k) == result

\* the backfill loop: append entries of all_sorted not yet in result
RECURSIVE Backfill(_, _, _)
Backfill(result, all_sorted, top_k) ==
    IF all_sorted = <<>> \/ Len(result) >= top_k THEN result
    ELSE IF Head(all_sorted) \in SeqToSet(result)
         THEN Backfill(result, Tail(all_sorted), top_k)
         ELSE Backfill(Append(result, Head(all_sorted)), Tail(all_sorted), top_k)

\* row_order: insertion order of entity_info (row order of the degree query)
find_cluster_hub_entities(entity_info, row_order, top_k, exclude_generic) ==
    IF DOMAIN entity_info = {} THEN <<>>
    ELSE LET filtered == IF exclude_generic
                         THEN FilterSeq(row_order,
                                 {e \in DOMAIN entity_info : ~entity_info[e].is_generic})
                         ELSE row_order
             result == Take(SortByScoreDesc(filtered, entity_info), top_k)
         IN IF Len(result) < top_k /\ exclude_generic
            THEN Take(Backfill(result, SortByScoreDesc(row_order, entity_info), top_k),
                      top_k)
            ELSE Take(result, top_k)

\* inputs of the centrality specification: a window of 1..MaxWin notes whose
\* first entity is mentioned by a prefix of the window (notes are
\* interchangeable), any mentions for the others, any blacklisted subset
CentralityCall ==
    /\ c_pc = "input"
    /\ c_info' = compute_entity_graph_centrality(c_notes, c_mentions, c_black)
    /\ c_order' \in Orderings(DegreeRows(c_notes, c_mentions))
    /\ c_pc' = "scored"
    /\ UNCHANGED <<c_notes, c_mentions, c_black, c_hubs, c_pick>>

HubCall ==
    /\ c_pc = "scored"
    /\ c_hubs' = find_cluster_hub_entities(c_info, c_order, TopK, TRUE)
    /\ c_pc' = "done"
    /\ UNCHANGED <<c_notes, c_mentions, c_black, c_info, c_order, c_pick>>

\* a call of find_cluster_hub_entities with its parameters given
HubCallTopK ==
    /\ c_pc = "scored"
    /\ \E top_k \in 1..TopK : \E exclude_generic \in BOOLEAN :
          c_pick' = [top_k |-> top_k,
                     exclude_generic |-> exclude_generic,
                     hubs |-> find_cluster_hub_entities(c_info, c_order, top_k,
                                                        exclude_generic)]
    /\ c_pc' = "picked"
    /\ UNCHANGED <<c_notes, c_mentions, c_black, c_info, c_order, c_hubs>>

cvars == <<c_notes, c_mentions, c_black, c_info, c_order, c_hubs, c_pick, c_pc>>

(***************************************************************************)
(* cluster_service: the SEMANTIC -> TYPE_BASED orchestration                *)
(***************************************************************************)
\* bound on the number of notes of a vault in SpecOrch
MaxNotes == 5

\* len(embeddings) < 5
MinSamples == 5

\* hdbscan min_cluster_size floor: max(5, n_samples // 50)
MinClusterFloor == 5
MinClusterDivisor == 50

NoFolder == "all"
FolderPrefix == "f/"

\* notes whose note_id starts with FolderPrefix
FolderNotes == {1, 2}

\* note.note_id STARTS WITH $folder_prefix (no filter without a prefix)
InScope(n, folder_prefix) == folder_prefix = NoFolder \/ n \in FolderNotes

\* the type tags: labels of the entity nodes
TypeTags == {"Topic", "Project", "EntityNode"}

\* str.lower() on the type tags
TypeLower(t) ==
    CASE t = "Topic" -> "topic"
      [] t = "Project" -> "project"
      [] t = "EntityNode" -> "entitynode"
      [] OTHER -> t

\* str.title() on the lowered type tags
TypeTitle(t) ==
    CASE t = "topic" -> "Topic"
      [] t = "project" -> "Project"
      [] t = "entitynode" -> "Entitynode"
      [] OTHER -> t

\* labels(entity)[0]
EntityType == [e \in Ents |-> IF e = "B" THEN "Project" ELSE "Topic"]

\* entities whose name is in GENERIC_ENTITY_BLACKLIST
GenericEnts == {"C"}

\* COUNT(DISTINCT note) of the projection query
MentionCount(vnotes, vmentions, folder_prefix, e) ==
    Cardinality({n \in DOMAIN vnotes :
                    InScope(n, folder_prefix) /\ <<n, e>> \in vmentions})

\* rows of cypher_projection, in the order the database returns them
EntityRows(vnotes, vmentions, folder_prefix, row_order) ==
    FilterSeq(row_order,
              {e \in Ents : MentionCount(vnotes, vmentions, folder_prefix, e) > 0})

\* the types of the given entities, in the order they first occur
RECURSIVE TypesInOrder(_, _)
TypesInOrder(rows, seen) ==
    IF rows = <<>> THEN <<>>
    ELSE IF EntityType[Head(rows)] \in seen
         THEN TypesInOrder(Tail(rows), seen)
         ELSE <<EntityType[Head(rows)]>>
                 \o TypesInOrder(Tail(rows), seen \cup {EntityType[Head(rows)]})

RECURSIVE SumNodeCount(_)
SumNodeCount(clusters) ==
    IF clusters = <<>> THEN 0
    ELSE Head(clusters).node_count + SumNodeCount(Tail(clusters))

\* a row of cypher_projection: entity.id, labels(entity)[0], mention_count
ProjectionRow(e, vnotes, vmentions, folder_prefix) ==
    [entity_id |-> e,
     type |-> EntityType[e],
     mention_count |-> MentionCount(vnotes, vmentions, folder_prefix, e)]

ProjectionRows(ids, vnotes, vmentions, folder_prefix) ==
    [i \in 1..Len(ids) |-> ProjectionRow(ids[i], vnotes, vmentions, folder_prefix)]

\* entity.id of a node without id property (None); falsy like ""
NoEntityId == ""

RECURSIVE FilterRows(_, _)
FilterRows(entities, type) ==
    IF entities = <<>> THEN <<>>
    ELSE IF Head(entities).type = type
         THEN <<Head(entities)>> \o FilterRows(Tail(entities), type)
         ELSE FilterRows(Tail(entities), type)

\* keys of clusters_by_type in insertion order
RECURSIVE RowTypesInOrder(_, _)
RowTypesInOrder(entities, seen) ==
    IF entities = <<>> THEN <<>>
    ELSE IF Head(entities).type \in seen
         THEN RowTypesInOrder(Tail(entities), seen)
         ELSE <<Head(entities).type>>
                 \o RowTypesInOrder(Tail(entities), seen \cup {Head(entities).type})

\* sum(e.get("mention_count", 0) for e in entity_list)
RECURSIVE SumMentionCount(_)
SumMentionCount(entity_list) ==
    IF entity_list = <<>> THEN 0
    ELSE Head(entity_list).mention_count + SumMentionCount(Tail(entity_list))

\* [e.get("entity_id") for e in entity_list if e.get("entity_id")]
RECURSIVE EntityIds(_)
EntityIds(entity_list) ==
    IF entity_list = <<>> THEN <<>>
    ELSE IF Head(entity_list).entity_id # NoEntityId
         THEN <<Head(entity_list).entity_id>> \o EntityIds(Tail(entity_list))
         ELSE EntityIds(Tail(entity_list))

\* min(10.0, total_mentions / 10.0)
ImportanceScore(total_mentions) == RMin(Rat(10, 1), Rat(total_mentions, 10))

\* the cluster of one type
TypeCluster(cluster_id, entity_type, entity_list) ==
    [id |-> cluster_id,
     name |-> <<entity_type, "Cluster">>,
     node_count |-> Len(entity_list),
     entity_ids |-> EntityIds(entity_list),
     note_ids |-> {},
     contains_types |-> <<<<TypeLower(entity_type), Len(entity_list)>>>>,
     key_insights |-> <<SumMentionCount(entity_list), entity_type>>,
     importance_score |-> ImportanceScore(SumMentionCount(entity_list)),
     clustering_method |-> "type_based"]

TypeClusters(entities, types) ==
    [k \in 1..Len(types) |-> TypeCluster(k, types[k], FilterRows(entities, types[k]))]

\* one cluster per entity type, numbered from 1 in insertion order
_simple_clustering(entities) ==
    TypeClusters(entities, RowTypesInOrder(entities, {}))

Raised == [raised |-> TRUE]

PlainMethod(tag) == [tag |-> tag, reason |-> "none"]

\* f"umap_hdbscan_fallback:{reason}"
FallbackMethod(reason) == [tag |-> "umap_hdbscan_fallback", reason |-> reason]

\* the result dict compute_clusters_louvain builds from the projection rows
LouvainResult(entities, vnotes, vmentions, folder_prefix) ==
    [raised |-> FALSE,
     clusters |-> IF entities = <<>> THEN <<>>
                  ELSE _simple_clustering(ProjectionRows(entities, vnotes, vmentions,
                                                         folder_prefix)),
     edges |-> <<>>,
     total_nodes |-> Len(entities),
     method |-> PlainMethod("louvain")]

\* compute_clusters_louvain: any exception of its queries is re-raised
compute_clusters_louvain(vnotes, vmentions, folder_prefix, row_order, query_fails) ==
    IF query_fails THEN Raised
    ELSE LouvainResult(EntityRows(vnotes, vmentions, folder_prefix, row_order),
                       vnotes, vmentions, folder_prefix)

\* mutant: the fallback keeps the method of the type-based result
_semantic_fallback_to_type_based_Untagged(vnotes, vmentions, folder_prefix, row_order, query_fails, reason) ==
    compute_clusters_louvain(vnotes, vmentions, folder_prefix, row_order, query_fails)

\* fallback["method"] = f"umap_hdbscan_fallback:{reason}"
TagFallback(fallback, reason) ==
    IF fallback.raised THEN Raised
    ELSE [fallback EXCEPT !.method = FallbackMethod(reason)]

\* _semantic_fallback_to_type_based: run TYPE_BASED, then tag the method
_semantic_fallback_to_type_based(vnotes, vmentions, folder_prefix, row_order, query_fails, reason) ==
    TagFallback(compute_clusters_louvain(vnotes, vmentions, folder_prefix,
                                         row_order, query_fails),
                reason)

\* notes returned by cypher_embeddings
EmbeddedNotes(vnotes, folder_prefix) ==
    {n \in DOMAIN vnotes : vnotes[n].embedding /\ InScope(n, folder_prefix)}

\* max(5, n_samples // 50)
MinClusterSize(n_samples) == IntMax(MinClusterFloor, n_samples \div MinClusterDivisor)

\* the labels that give cluster 0 to the first a notes, cluster 1 to the
\* next b notes and -1 (noise) to the rest
BlockLabels(emb_notes, a, b) ==
    [n \in emb_notes |->
        LET rank == Cardinality({m \in emb_notes : m <= n})
        IN IF rank <= a THEN 0 ELSE IF rank <= a + b THEN 1 ELSE -1]

\* what hdbscan.fit_predict may return for the notes: -1 for noise, clusters
\* numbered from 0, each with at least min_cluster_size members; the notes
\* of a cluster are taken as a block of consecutive notes
HdbscanLabelings(emb_notes) ==
    LET n_samples == Cardinality(emb_notes)
        sizes == {0} \cup (MinClusterSize(n_samples)..n_samples)
    IN {BlockLabels(emb_notes, p[1], p[2]) :
           p \in {q \in sizes \X sizes :
                     /\ q[1] + q[2] <= n_samples
                     /\ q[2] > 0 => q[1] > 0}}

\* mutant: the first key of the dict, whatever its count
DominantType_First(type_counts) == type_counts[1][1]

\* max(type_counts.items(), key=lambda x: x[1])[0]: the first of the items
\* with the largest count
DominantType(type_counts) ==
    type_counts[CHOOSE i \in 1..Len(type_counts) :
                   /\ \A j \in 1..Len(type_counts) :
                         type_counts[j][2] <= type_counts[i][2]
                   /\ \A j \in 1..(i - 1) :
                         type_counts[j][2] < type_counts[i][2]][1]

\* generate_cluster_name_from_graph; type_counts is the dict as the sequence
\* of its <<type, count>> items in insertion order
generate_cluster_name_from_graph(hub_entities, type_counts) ==
    IF hub_entities = <<>>
    THEN <<IF type_counts = <<>> THEN "Unknown"
           ELSE TypeTitle(DominantType(type_counts)),
           "Cluster">>
    ELSE IF Len(hub_entities) = 1 THEN <<hub_entities[1], "center">>
    ELSE <<hub_entities[1], "&", hub_entities[2]>>

\* type_counts: the dict as the sequence of its items in insertion order
CountTypes(sorted_entities, types) ==
    [k \in 1..Len(types) |->
        <<TypeLower(types[k]),
          Cardinality({e \in SeqToSet(sorted_entities) : EntityType[e] = types[k]})>>]

TypeCounts(sorted_entities) ==
    CountTypes(sorted_entities, TypesInOrder(sorted_entities, {}))

\* the cluster dict appended for one label
SemanticCluster(cluster_id, cluster_note_ids, sorted_entities, hub_entities) ==
    [id |-> cluster_id + 1,
     name |-> generate_cluster_name_from_graph(hub_entities,
                                               TypeCounts(sorted_entities)),
     node_count |-> Len(sorted_entities),
     entity_ids |-> sorted_entities,
     note_ids |-> cluster_note_ids,
     contains_types |-> TypeCounts(sorted_entities),
     hub_entities |-> hub_entities,
     clustering_method |-> "umap_hdbscan_graph_centrality"]

\* mutant: a label whose notes mention no entity gets a cluster too
ClusterOfLabel_NoSkip(cluster_id, cluster_note_ids, entity_info, row_order) ==
    <<SemanticCluster(cluster_id, cluster_note_ids,
                      SortByScoreDesc(FilterSeq(row_order, DOMAIN entity_info),
                                      entity_info),
                      find_cluster_hub_entities(
                          entity_info, FilterSeq(row_order, DOMAIN entity_info),
                          TopK, TRUE))>>

\* one pass of the loop body: no cluster when the notes mention no entity
ClusterOfLabel(cluster_id, cluster_note_ids, entity_info, row_order) ==
    IF DOMAIN entity_info = {} THEN <<>>
    ELSE <<SemanticCluster(cluster_id, cluster_note_ids,
                           SortByScoreDesc(FilterSeq(row_order, DOMAIN entity_info),
                                           entity_info),
                           find_cluster_hub_entities(
                               entity_info, FilterSeq(row_order, DOMAIN entity_info),
                               TopK, TRUE))>>

NotesOfLabel(labels, cluster_id) == {n \in DOMAIN labels : labels[n] = cluster_id}

\* the loop over sorted(unique_labels)
RECURSIVE SemanticClusters(_, _, _, _, _)
SemanticClusters(label_list, labels, vnotes, vmentions, row_order) ==
    IF label_list = <<>> THEN <<>>
    ELSE ClusterOfLabel(Head(label_list), NotesOfLabel(labels, Head(label_list)),
                        compute_entity_graph_centrality(
                            NotesOfLabel(labels, Head(label_list)), vmentions,
                            GenericEnts),
                        row_order)
            \o SemanticClusters(Tail(label_list), labels, vnotes, vmentions, row_order)

\* set(clusters[i].get("entity_ids") or [])
EntitySet(cluster) == SeqToSet(cluster.entity_ids)

\* mutant: the weight is 1 whatever the clusters share
EdgeWeight_One(shared) == 1

\* float(len(shared))
EdgeWeight(shared) == Cardinality(shared)

\* the edges the inner loop appends for cluster i and the clusters from j on
RECURSIVE EdgesFrom(_, _, _)
EdgesFrom(clusters, i, j) ==
    IF j > Len(clusters) THEN <<>>
    ELSE IF EntitySet(clusters[i]) \cap EntitySet(clusters[j]) = {}
         THEN EdgesFrom(clusters, i, j + 1)
         ELSE <<[from |-> clusters[i].id, to |-> clusters[j].id,
                 relation_type |-> "RELATED_TO",
                 weight |-> EdgeWeight(EntitySet(clusters[i])
                                          \cap EntitySet(clusters[j]))]>>
                 \o EdgesFrom(clusters, i, j + 1)

\* the outer loop from cluster i on
RECURSIVE EdgesOfPairs(_, _)
EdgesOfPairs(clusters, i) ==
    IF i > Len(clusters) THEN <<>>
    ELSE EdgesFrom(clusters, i, i + 1) \o EdgesOfPairs(clusters, i + 1)

\* _build_cluster_edges: one RELATED_TO edge per pair i < j sharing entity ids
_build_cluster_edges(clusters) ==
    IF Len(clusters) < 2 THEN <<>> ELSE EdgesOfPairs(clusters, 1)

\* what the environment of one call decides: where (if anywhere) the SEMANTIC
\* steps raise, what hdbscan returns, which invocations of the type-based
\* queries fail, and the row order of the database
RaisePoints == {"never", "embeddings_query", "array", "clustering"}

RowOrders == {<<"A", "B", "C">>, <<"C", "B", "A">>}

Envs(vnotes, folder_prefix) ==
    [semantic_raises : RaisePoints,
     labels : HdbscanLabelings(EmbeddedNotes(vnotes, folder_prefix)),
     louvain_fails : [1..3 -> BOOLEAN],
     row_order : RowOrders]

\* mutant: without the fixed seed a repeated fit may label differently
SeededLabels_Unseeded(first, again) == again

\* UMAP(random_state=42) and HDBSCAN on the embeddings of an earlier run:
\* the fixed seed makes the repeated fit return the labels of the first
SeededLabels(first, again) == first

\* the record of one run: triggers lists the fallback reasons in the order
\* they fired, invocations has one entry per compute_clusters_louvain
\* invocation, TRUE where that invocation raised
Ran(triggers, invocations, outcome) ==
    [triggers |-> triggers, invocations |-> invocations] @@ outcome

\* sorted(unique_labels)
SortedLabels(unique_labels) ==
    IF unique_labels = {} THEN <<>>
    ELSE [i \in 1..Cardinality(unique_labels) |->
            CHOOSE c \in unique_labels :
                Cardinality({b \in unique_labels : b < c}) = i - 1]

\* the statement at which the try block ends: a raise, one of the fallback
\* reasons, or the return of the semantic result
SemanticExit(env, emb_notes, unique_labels, clusters) ==
    IF env.semantic_raises = "embeddings_query" THEN "raise"
    ELSE IF emb_notes = {} THEN "no_embeddings"
    ELSE IF env.semantic_raises = "array" THEN "raise"
    ELSE IF Cardinality(emb_notes) < MinSamples THEN "insufficient_samples"
    ELSE IF env.semantic_raises = "clustering" THEN "raise"
    ELSE IF unique_labels = {} THEN "no_clusters"
    ELSE IF clusters = <<>> THEN "empty_result"
    ELSE "return"

\* the result dict of the semantic method
SemanticResult(clusters) ==
    [raised |-> FALSE,
     clusters |-> clusters,
     edges |-> _build_cluster_edges(clusters),
     total_nodes |-> SumNodeCount(clusters),
     method |-> PlainMethod("umap_hdbscan")]

SemanticLeave(exit, clusters, vnotes, vmentions, folder_prefix, env) ==
    IF exit = "raise" THEN Ran(<<>>, <<>>, Raised)
    ELSE IF exit = "return" THEN Ran(<<>>, <<>>, SemanticResult(clusters))
    ELSE Ran(<<exit>>, <<env.louvain_fails[1]>>,
             _semantic_fallback_to_type_based(vnotes, vmentions, folder_prefix,
                                              env.row_order, env.louvain_fails[1],
                                              exit))

SemanticBody(clusters, vnotes, vmentions, folder_prefix, env) ==
    SemanticLeave(SemanticExit(env, EmbeddedNotes(vnotes, folder_prefix),
                               Range(env.labels) \ {-1}, clusters),
                  clusters, vnotes, vmentions, folder_prefix, env)

\* the try block of compute_clusters_semantic
SemanticTry(vnotes, vmentions, folder_prefix, env) ==
    SemanticBody(SemanticClusters(SortedLabels(Range(env.labels) \ {-1}), env.labels,
                                  vnotes, vmentions, env.row_order),
                 vnotes, vmentions, folder_prefix, env)

\* the except handler of compute_clusters_semantic: the fallback with reason
\* "exception"
SemanticExcept(body, vnotes, vmentions, folder_prefix, env) ==
    IF ~body.raised THEN body
    ELSE Ran(Append(body.triggers, "exception"),
             Append(body.invocations, env.louvain_fails[Len(body.invocations) + 1]),
             _semantic_fallback_to_type_based(
                 vnotes, vmentions, folder_prefix, env.row_order,
                 env.louvain_fails[Len(body.invocations) + 1], "exception"))

\* compute_clusters_semantic: the dependency check, then the try block and
\* its except handler
compute_clusters_semantic(vnotes, vmentions, folder_prefix, clustering_available, env) ==
    IF ~clustering_available
    THEN Ran(<<"dependency_missing">>, <<env.louvain_fails[1]>>,
             _semantic_fallback_to_type_based(vnotes, vmentions, folder_prefix,
                                              env.row_order, env.louvain_fails[1],
                                              "dependency_missing"))
    ELSE SemanticExcept(SemanticTry(vnotes, vmentions, folder_prefix, env),
                        vnotes, vmentions, folder_prefix, env)

\* method.lower()
Methods == {"semantic", "Auto", "type_based", "type", "invalid"}
Lower(method) == IF method = "Auto" THEN "auto" ELSE method

\* the method branch of get_clustered_vault_graph; an unknown method raises
\* HTTPException(400)
MethodBranch(method_normalized, vnotes, vmentions, folder_prefix, clustering_available, env) ==
    IF method_normalized \in {"semantic", "auto"}
    THEN compute_clusters_semantic(vnotes, vmentions, folder_prefix,
                                   clustering_available, env)
    ELSE IF method_normalized \in {"type_based", "type"}
    THEN Ran(<<>>, <<env.louvain_fails[1]>>,
             compute_clusters_louvain(vnotes, vmentions, folder_prefix,
                                      env.row_order, env.louvain_fails[1]))
    ELSE Ran(<<>>, <<>>, Raised)

\* result["method"] = "semantic_fallback"
SemanticFallbackMethod(again) ==
    IF again.raised THEN Raised
    ELSE [again EXCEPT !.method = PlainMethod("semantic_fallback")]

\* the fallback of the route: a semantic result without clusters is replaced
\* by a new type-based result
RouteFallback(method_normalized, result, vnotes, vmentions, folder_prefix, env) ==
    IF result.raised THEN result
    ELSE IF method_normalized \in {"semantic", "auto"} /\ result.clusters = <<>>
    THEN Ran(result.triggers,
             Append(result.invocations, env.louvain_fails[Len(result.invocations) + 1]),
             SemanticFallbackMethod(
                 compute_clusters_louvain(
                     vnotes, vmentions, folder_prefix, env.row_order,
                     env.louvain_fails[Len(result.invocations) + 1])))
    ELSE result

\* get_clustered_vault_graph, the compute section: choose the method, and if
\* the semantic result has no clusters run the type-based method again and
\* overwrite the method with "semantic_fallback"
ComputeSection(vnotes, vmentions, method, folder_prefix, clustering_available, env) ==
    RouteFallback(Lower(method),
                  MethodBranch(Lower(method), vnotes, vmentions, folder_prefix,
                               clustering_available, env),
                  vnotes, vmentions, folder_prefix, env)

(***************************************************************************)
(* entity_cluster_service.merge_cluster_assignments                        *)
(***************************************************************************)
\* bounds of the merge inputs
MaxIds == 2
MaxCid == 2

Uuids == 1..MaxIds
NOISE == -1

\* dict.get(key, -1)
DictGet(d, k) == IF k \in DOMAIN d THEN d[k] ELSE NOISE

\* a Python dict with keys in Uuids and cluster ids in -1..MaxCid
ClusterDicts == UNION {[D -> NOISE..MaxCid] : D \in SUBSET Uuids}

\* max(embedding_clusters.values()) if embedding_clusters else 0
MaxEmb(embedding_clusters) ==
    IF DOMAIN embedding_clusters = {} THEN 0 ELSE SetMax(Range(embedding_clusters))

\* mutant: the graph cluster wins whenever the id has one
MergeFirstPass_GraphFirst(graph_clusters, embedding_clusters) ==
    [u \in (DOMAIN graph_clusters) \cup (DOMAIN embedding_clusters) |->
        IF DictGet(graph_clusters, u) >= 0
        THEN MaxEmb(embedding_clusters) + 1 + DictGet(graph_clusters, u)
        ELSE IF DictGet(embedding_clusters, u) >= 0
             THEN DictGet(embedding_clusters, u)
             ELSE NOISE]

\* mutant: the graph cluster id is used without the offset
MergeFirstPass_NoOffset(graph_clusters, embedding_clusters) ==
    [u \in (DOMAIN graph_clusters) \cup (DOMAIN embedding_clusters) |->
        IF DictGet(embedding_clusters, u) >= 0
        THEN DictGet(embedding_clusters, u)
        ELSE DictGet(graph_clusters, u)]

\* first loop: embedding cluster first, offset graph cluster second, else -1
MergeFirstPass(graph_clusters, embedding_clusters) ==
    [u \in (DOMAIN graph_clusters) \cup (DOMAIN embedding_clusters) |->
        IF DictGet(embedding_clusters, u) >= 0
        THEN DictGet(embedding_clusters, u)
        ELSE IF DictGet(graph_clusters, u) >= 0
             THEN MaxEmb(embedding_clusters) + 1 + DictGet(graph_clusters, u)
             ELSE NOISE]

\* cluster_counts over same_graph (in graph_clusters.items() order) and
\* max(cluster_counts, key=cluster_counts.get): the first-inserted key among
\* those with the highest count; NOISE when cluster_counts is empty
MajorityCluster(final, same_graph) ==
    LET hits == FilterSeq(same_graph, {u \in DOMAIN final : final[u] >= 0})
        Count(c) == Cardinality({i \in 1..Len(hits) : final[hits[i]] = c})
        best == SetMax({Count(final[hits[i]]) : i \in 1..Len(hits)})
        first == CHOOSE i \in 1..Len(hits) :
                    /\ Count(final[hits[i]]) = best
                    /\ \A j \in 1..(i - 1) : Count(final[hits[j]]) # best
    IN IF hits = <<>> THEN NOISE ELSE final[hits[first]]

\* the largest number of entity uuids of one call
MaxUuids == 3

\* mutant: every uuid gets id 0
EnumerateIds_Zero(entity_uuids) == [u \in SeqToSet(entity_uuids) |-> 0]

\* {uuid: i for i, uuid in enumerate(entity_uuids)}
EnumerateIds(entity_uuids) ==
    [u \in SeqToSet(entity_uuids) |->
        (CHOOSE i \in 1..Len(entity_uuids) :
            /\ entity_uuids[i] = u
            /\ \A k \in (i + 1)..Len(entity_uuids) : entity_uuids[k] # u) - 1]

\* the nodes of G: add_nodes_from(entity_uuids), and add_edge adds endpoints
GraphNodes(entity_uuids, edges) ==
    SeqToSet(entity_uuids) \cup {e[1] : e \in edges} \cup {e[2] : e \in edges}

\* a node with an edge to another node
HasNeighbour(u, edges) ==
    \E e \in edges : e[1] # e[2] /\ (e[1] = u \/ e[2] = u)

\* louvain_communities(G, seed=42): a list of disjoint non-empty sets that
\* cover the nodes of G; a node moves only into the community of a
\* neighbour, so a node without neighbour stays a community of its own
LouvainCommunities(nodes, edges) ==
    {communities \in UNION {[1..k -> (SUBSET nodes) \ {{}}] : k \in 0..Cardinality(nodes)} :
        /\ \A u \in nodes : \E i \in DOMAIN communities : u \in communities[i]
        /\ \A i, k \in DOMAIN communities :
              i # k => communities[i] \cap communities[k] = {}
        /\ \A i \in DOMAIN communities : \A u \in communities[i] :
              ~HasNeighbour(u, edges) => communities[i] = {u}}

\* the dict built from the communities: position in the list as cluster id
CommunityIds(communities) ==
    [u \in UNION Range(communities) |->
        (CHOOSE i \in DOMAIN communities : u \in communities[i]) - 1]

\* uuids the communities do not hold get new ids, in list order
RECURSIVE FillMissing(_, _, _, _)
FillMissing(uuid_to_cluster, entity_uuids, i, next_cluster) ==
    IF i > Len(entity_uuids) THEN uuid_to_cluster
    ELSE IF entity_uuids[i] \in DOMAIN uuid_to_cluster
         THEN FillMissing(uuid_to_cluster, entity_uuids, i + 1, next_cluster)
         ELSE FillMissing([u \in DOMAIN uuid_to_cluster \cup {entity_uuids[i]} |->
                              IF u = entity_uuids[i] THEN next_cluster
                              ELSE uuid_to_cluster[u]],
                          entity_uuids, i + 1, next_cluster + 1)

\* cluster_by_graph_louvain; communities is what louvain_communities
\* returns, raises whether it raised instead
cluster_by_graph_louvain(entity_uuids, edges, networkx_available, communities, raises) ==
    IF ~networkx_available THEN [u \in SeqToSet(entity_uuids) |-> 0]
    ELSE IF edges = {} THEN EnumerateIds(entity_uuids)
    ELSE IF raises THEN EnumerateIds(entity_uuids)
    ELSE FillMissing(CommunityIds(communities), entity_uuids, 1, Len(communities))

\* second loop: reassign noise ids to the majority cluster of their graph peers
RECURSIVE MergeNoisePass(_, _, _, _)
MergeNoisePass(final, noise_uuids, graph_clusters, graph_order) ==
    IF noise_uuids = <<>> THEN final
    ELSE LET uuid == Head(noise_uuids)
             graph_cluster == DictGet(graph_clusters, uuid)
             same_graph == FilterSeq(graph_order,
                              {u \in DOMAIN graph_clusters :
                                  graph_clusters[u] = graph_cluster /\ u # uuid})
             adopted == MajorityCluster(final, same_graph)
             next == IF graph_cluster >= 0 /\ same_graph # <<>> /\ adopted # NOISE
                     THEN [final EXCEPT ![uuid] = adopted]
                     ELSE final
         IN MergeNoisePass(next, Tail(noise_uuids), graph_clusters, graph_order)

\* mutant: the last loop is skipped
MergeSingletons_Skipped(final, order, next_id) == final

\* third loop: every id still -1 gets next_id, next_id + 1, ... in dict order
RECURSIVE MergeSingletons(_, _, _)
MergeSingletons(final, order, next_id) ==
    IF order = <<>> THEN final
    ELSE IF final[Head(order)] = NOISE
         THEN MergeSingletons([final EXCEPT ![Head(order)] = next_id],
                              Tail(order), next_id + 1)
         ELSE MergeSingletons(final, Tail(order), next_id)

\* uuid_order: iteration order of the set all_uuids (insertion order of
\* final_clusters); graph_order: insertion order of graph_clusters
merge_cluster_assignments(graph_clusters, embedding_clusters, uuid_order, graph_order) ==
    LET first == MergeFirstPass(graph_clusters, embedding_clusters)
        noise_uuids == FilterSeq(uuid_order, {u \in DOMAIN first : first[u] = NOISE})
        second == MergeNoisePass(first, noise_uuids, graph_clusters, graph_order)
        max_cluster == IF \E u \in DOMAIN second : second[u] >= 0
                       THEN SetMax({second[u] : u \in {v \in DOMAIN second : second[v] >= 0}})
                       ELSE -1
    IN MergeSingletons(second, uuid_order, max_cluster + 1)

MergeCall ==
    /\ m_pc = "input"
    /\ \E uuid_order \in Orderings((DOMAIN m_graph) \cup (DOMAIN m_emb)) :
       \E graph_order \in Orderings(DOMAIN m_graph) :
          m_final' = merge_cluster_assignments(m_graph, m_emb, uuid_order, graph_order)
    /\ m_pc' = "done"
    /\ UNCHANGED <<m_graph, m_emb>>

mvars == <<m_graph, m_emb, m_final, m_pc>>

(***************************************************************************)
(* cluster_service: the ClusterCache node and its staleness check          *)
(***************************************************************************)
\* save_cluster_cache(..., ttl_hours: int = 12, ...)
TtlHours == 12

\* the clock advances in steps of TickHours up to MaxTime
TickHours == 8
MaxTime == 16
Times == {t \in 0..MaxTime : t % TickHours = 0}

NoCache == [none |-> TRUE]

\* the offset of the local time zone of a client that writes its updated_at
\* as local time with the offset ("...T09:00:00+09:00")
OffsetHours == 9

\* updated_at strings for the instant t: ISO with the UTC designator ("utc",
\* "...T00:00:00Z"), ISO local time with its offset ("offset"), ISO without
\* an offset ("naive"), the empty string ("empty"), or a non-empty string
\* that is no ISO date ("text", it starts with a letter)
Stamp(form, t) == [form |-> form, t |-> t]

\* the updated_at values a client that writes the given form sends
Stamps(form) == {Stamp(form, t) : t \in Times}

\* the clock reading the digits of the string spell
Reading(a) == IF a.form = "offset" THEN a.t + OffsetHours ELSE a.t

\* rank of the suffix after the digits: "" < "+09:00" < "Z"
SuffixRank(form) == IF form = "naive" THEN 0 ELSE IF form = "offset" THEN 1 ELSE 2

\* string order of two updated_at values, as Cypher's max() compares the
\* string properties: "" is least, then the digits decide, then the suffix
StampLeq(a, b) ==
    \/ a.form = "empty"
    \/ b.form = "text"
    \/ /\ b.form # "empty"
       /\ a.form # "text"
       /\ \/ Reading(a) < Reading(b)
          \/ Reading(a) = Reading(b) /\ SuffixRank(a.form) <= SuffixRank(b.form)

\* max(n.updated_at) over the vault's notes
MaxUpdatedAt(vnotes) ==
    CHOOSE u \in {vnotes[n].updated_at : n \in DOMAIN vnotes} :
        \A n \in DOMAIN vnotes : StampLeq(vnotes[n].updated_at, u)

\* _parse_datetime: None for a missing or unparsable value, otherwise the
\* datetime, offset-aware only when the string carries an offset
_parse_datetime(value) ==
    IF value.form \in {"empty", "text"} THEN [kind |-> "none", t |-> 0]
    ELSE IF value.form \in {"utc", "offset"} THEN [kind |-> "aware", t |-> value.t]
    ELSE [kind |-> "naive", t |-> value.t]

\* str(cache.computed_at) of the DateTime the database stored: an ISO string
\* in UTC with nine fractional digits, which datetime.fromisoformat parses
\* from Python 3.11 on; on an older interpreter the parse fails and the
\* staleness check answers True, the outcome of the "stale_check" fault
ComputedAtString(t) == Stamp("utc", t)

\* mutant: the data of the cache node is used without json.loads
get_cached_clusters_Unparsed(entry, clock, query_fails) ==
    IF query_fails \/ entry = NoCache THEN NoCache
    ELSE IF ~(entry.expires_at > clock) THEN NoCache
    ELSE [clusters |-> entry.clusters,
          edges |-> entry.edges,
          computed_at |-> ComputedAtString(entry.computed_at),
          method |-> entry.method]

\* get_cached_clusters: the unexpired entry; None when the query raises and
\* when json.loads raises on the node's data
get_cached_clusters(entry, clock, query_fails) ==
    IF query_fails \/ entry = NoCache THEN NoCache
    ELSE IF ~(entry.expires_at > clock) THEN NoCache
    ELSE IF ~entry.json THEN NoCache
    ELSE [clusters |-> entry.clusters,
          edges |-> entry.edges,
          computed_at |-> ComputedAtString(entry.computed_at),
          method |-> entry.method]

\* mutant: an existing cache node keeps its content
save_cluster_cache_KeepFirst(entry, vnotes, clusters, method, edges, clock, query_fails) ==
    IF query_fails \/ DOMAIN vnotes = {} \/ entry # NoCache THEN entry
    ELSE [clusters |-> clusters,
          edges |-> edges,
          json |-> TRUE,
          method |-> method,
          computed_at |-> clock,
          expires_at |-> clock + TtlHours]

\* save_cluster_cache: MATCH the Vault node (upsert_note creates it with the
\* first note), MERGE the cache node, stamp it with the clock of the write
save_cluster_cache(entry, vnotes, clusters, method, edges, clock, query_fails) ==
    IF query_fails \/ DOMAIN vnotes = {} THEN entry
    ELSE [clusters |-> clusters,
          edges |-> edges,
          json |-> TRUE,
          method |-> method,
          computed_at |-> clock,
          expires_at |-> clock + TtlHours]

\* is_cluster_cache_stale
is_cluster_cache_stale(vnotes, computed_at, query_fails) ==
    LET computed_dt == _parse_datetime(computed_at)
        last_updated == _parse_datetime(MaxUpdatedAt(vnotes))
    IN IF computed_dt.kind = "none" THEN TRUE
       ELSE IF query_fails THEN TRUE
       ELSE IF DOMAIN vnotes = {} THEN FALSE
       ELSE IF last_updated.kind = "none" THEN FALSE
       ELSE IF last_updated.kind # computed_dt.kind THEN TRUE
       ELSE last_updated.t > computed_dt.t

\* the bool save_cluster_cache returns: the query returned the cache node
SaveReturns(vnotes, query_fails) == ~query_fails /\ DOMAIN vnotes # {}

\* invalidate_cluster_cache: DETACH DELETE of the cache node
invalidate_cluster_cache(entry, query_fails) ==
    IF query_fails THEN entry ELSE NoCache

\* generate_llm_summaries: every cluster gets a summary, the placeholder one
\* when the LLM call fails
generate_llm_summaries(clusters, llm_fails) ==
    [i \in 1..Len(clusters) |->
        [summary |-> IF llm_fails THEN "placeholder" ELSE "llm"] @@ clusters[i]]

(***************************************************************************)
(* routes_graph / routes_notes: the handlers over one vault                *)
(***************************************************************************)
\* bound on the number of background_warmup threads alive at once
MaxWarm == 1

\* the notes of the vault of Spec; note 1 is synced with its content and the
\* AI extraction finds NoteEntities in it, note 2 is synced with its metadata
\* only (content_for_ai = "", so no AI task is scheduled)
VaultNoteIds == {1, 2}
ContentNotes == {1}

\* note 1 is synced from a device that writes local time with its offset,
\* note 2 from a device that writes UTC
NoteForm == [n \in VaultNoteIds |-> IF n = 1 THEN "offset" ELSE "utc"]
NoteEntities == [n \in ContentNotes |-> {"A", "B"}]

\* the one step of a request that may fail: only a step the request runs
Faults(folder_prefix, force_recompute) ==
    {"none", "louvain"}
        \cup (IF folder_prefix = NoFolder THEN {"save"} ELSE {})
        \cup (IF ~force_recompute /\ folder_prefix = NoFolder
              THEN {"cache_read", "stale_check"} ELSE {})

FaultEnv(fault, labels) ==
    [semantic_raises |-> IF fault = "embeddings_query" THEN fault ELSE "never",
     labels |-> labels,
     louvain_fails |-> [i \in 1..3 |-> fault = "louvain" /\ i = 1],
     row_order |-> <<"A", "B", "C">>]

\* the method parameters the requests of Spec carry
RequestMethods == {"semantic", "type_based", "invalid"}

NoResponse == [status |-> "none", via |-> "none"]

\* the ClusteredGraphResponse of each return statement
\* a cache entry written by an earlier whole-vault request
EarlierEntry ==
    [clusters |-> <<>>, edges |-> <<>>, json |-> TRUE,
     method |-> PlainMethod("louvain"), computed_at |-> 0, expires_at |-> TtlHours]

\* a cache node whose data property is no JSON document
CorruptEntry == [EarlierEntry EXCEPT !.json = FALSE]

\* the status of each return statement, and which one it was
CachedResponse == [status |-> "success", via |-> "cache"]
ComputedResponse == [status |-> "success", via |-> "computed"]
WarmupResponse == [status |-> "warming_up", via |-> "warmup"]
ErrorResponse == [status |-> "error", via |-> "error"]

\* the clock of the database
Tick ==
    /\ now + TickHours <= MaxTime
    /\ now' = now + TickHours
    /\ response' = NoResponse
    /\ UNCHANGED <<vault_notes, vault_mentions, CLUSTERING_AVAILABLE, cache, warm>>

\* a thread that has read its input sees the vault change under it
NoteChanged(thread) ==
    IF thread.pc = "computed" THEN [thread EXCEPT !.updated_since_read = TRUE]
    ELSE thread

Invalidated(thread) ==
    IF thread.pc = "computed" /\ thread.updated_since_read
    THEN [thread EXCEPT !.invalidated_after_update = TRUE]
    ELSE thread

\* POST /notes/sync: upsert_note writes the client's updated_at; the AI task
\* it schedules is ProcessAI
SyncNote ==
    \E n \in VaultNoteIds : \E updated_at \in Stamps(NoteForm[n]) :
        LET embedding == IF n \in DOMAIN vault_notes THEN vault_notes[n].embedding
                         ELSE FALSE
            note == [updated_at |-> updated_at, embedding |-> embedding]
        IN /\ ~(n \in DOMAIN vault_notes /\ vault_notes[n] = note)
           /\ vault_notes' = [m \in DOMAIN vault_notes \cup {n} |->
                                 IF m = n THEN note ELSE vault_notes[m]]
           /\ warm' = [i \in DOMAIN warm |-> NoteChanged(warm[i])]
           /\ response' = NoResponse
           /\ UNCHANGED <<vault_mentions, CLUSTERING_AVAILABLE, now, cache>>

\* process_ai_in_background: entity extraction and the note's embedding
ProcessAI ==
    \E n \in DOMAIN vault_notes \cap ContentNotes :
        /\ ~vault_notes[n].embedding
        /\ vault_notes' = [vault_notes EXCEPT ![n].embedding = TRUE]
        /\ vault_mentions' = vault_mentions \cup {<<n, e>> : e \in NoteEntities[n]}
        /\ response' = NoResponse
        /\ UNCHANGED <<CLUSTERING_AVAILABLE, now, cache, warm>>

\* POST /vault/clustered/invalidate: invalidate_cluster_cache deletes the node
Invalidate ==
    /\ cache' = NoCache
    /\ warm' = [i \in DOMAIN warm |-> Invalidated(warm[i])]
    /\ response' = NoResponse
    /\ UNCHANGED <<vault_notes, vault_mentions, CLUSTERING_AVAILABLE, now>>

\* the cache check of the request: only without a folder and without
\* force_recompute
CachedEntry(folder_prefix, force_recompute, fault) ==
    IF ~force_recompute /\ folder_prefix = NoFolder
    THEN get_cached_clusters(cache, now, fault = "cache_read")
    ELSE NoCache

CacheHit(cached, fault) ==
    /\ cached # NoCache
    /\ ~is_cluster_cache_stale(vault_notes, cached.computed_at, fault = "stale_check")

\* the optional LLM summaries of the computed clusters
Summarised(clusters, include_llm, fault) ==
    IF include_llm /\ Len(clusters) > 0
    THEN generate_llm_summaries(clusters, fault = "llm")
    ELSE clusters

\* after the compute section: an exception becomes HTTP 500, a result is
\* saved (whole-vault requests only) and returned
Respond(result, folder_prefix, include_llm, fault) ==
    IF result.raised
    THEN /\ response' = ErrorResponse
         /\ cache' = cache
    ELSE /\ cache' = IF folder_prefix = NoFolder
                     THEN save_cluster_cache(cache, vault_notes,
                                             Summarised(result.clusters, include_llm,
                                                        fault),
                                             result.method, result.edges,
                                             now, fault = "save")
                     ELSE cache
         /\ response' = ComputedResponse

\* GET /vault/clustered without warmup: cache check, compute section, LLM
\* summaries, save, response; the handler has no await and runs to its return
ClusteredRequest(folder_prefix, force_recompute, include_llm, method, fault) ==
    /\ warm' = warm
    /\ UNCHANGED <<vault_notes, vault_mentions, CLUSTERING_AVAILABLE, now>>
    /\ IF CacheHit(CachedEntry(folder_prefix, force_recompute, fault), fault)
       THEN /\ response' = CachedResponse
            /\ cache' = cache
       ELSE \E labels \in HdbscanLabelings(EmbeddedNotes(vault_notes, folder_prefix)) :
              Respond(ComputeSection(vault_notes, vault_mentions, method,
                                     folder_prefix, CLUSTERING_AVAILABLE,
                                     FaultEnv(fault, labels)),
                      folder_prefix, include_llm, fault)

\* GET /vault/clustered?folder_prefix=f/ without warmup
FolderRequest ==
    \E force_recompute \in BOOLEAN :
    \E method \in RequestMethods : \E fault \in Faults(FolderPrefix, force_recompute) :
        ClusteredRequest(FolderPrefix, force_recompute, FALSE, method, fault)

\* GET /vault/clustered for the whole vault with a method the route knows,
\* without force_recompute and with no failure injected
SoundRequest ==
    \E method \in RequestMethods \ {"invalid"} :
        ClusteredRequest(NoFolder, FALSE, FALSE, method, "none")

\* GET /vault/clustered for the whole vault whose cache read raises
ReadFailRequest ==
    \E method \in RequestMethods \ {"invalid"} :
        ClusteredRequest(NoFolder, FALSE, FALSE, method, "cache_read")

PlainRequest ==
    \E folder_prefix \in {NoFolder, FolderPrefix} :
    \E force_recompute \in BOOLEAN :
    \E method \in RequestMethods : \E fault \in Faults(folder_prefix, force_recompute) :
        ClusteredRequest(folder_prefix, force_recompute, FALSE, method, fault)

\* GET /vault/clustered?warmup=true: submit background_warmup to a new
\* executor and answer at once
WarmupSubmit(limit) ==
    /\ Len(warm) < limit
    /\ warm' = Append(warm, [pc |-> "submitted"])
    /\ response' = WarmupResponse
    /\ UNCHANGED <<vault_notes, vault_mentions, CLUSTERING_AVAILABLE, now, cache>>

WarmupRequest == WarmupSubmit(MaxWarm)

\* the largest number of background threads when warmup requests follow
\* one another
MaxPending == 2

\* a warmup request that may arrive while an earlier thread is alive
WarmupBurst == WarmupSubmit(MaxPending)

Without(s, i) == [j \in 1..(Len(s) - 1) |-> IF j < i THEN s[j] ELSE s[j + 1]]

\* the thread after compute_clusters_semantic: an exception ends it
AfterCompute(i, result) ==
    IF result.raised THEN Without(warm, i)
    ELSE [warm EXCEPT ![i] = [pc |-> "computed",
                              result |-> [clusters |-> result.clusters,
                                          edges |-> result.edges,
                                          method |-> result.method],
                              updated_since_read |-> FALSE,
                              invalidated_after_update |-> FALSE]]

\* background_warmup, first half: compute_clusters_semantic over the whole
\* vault
WarmupCompute ==
    \E i \in DOMAIN warm : \E fault \in {"none", "louvain"} :
    \E labels \in HdbscanLabelings(EmbeddedNotes(vault_notes, NoFolder)) :
        /\ warm[i].pc = "submitted"
        /\ warm' = AfterCompute(i, compute_clusters_semantic(
                                       vault_notes, vault_mentions, NoFolder,
                                       CLUSTERING_AVAILABLE, FaultEnv(fault, labels)))
        /\ response' = NoResponse
        /\ UNCHANGED <<vault_notes, vault_mentions, CLUSTERING_AVAILABLE, now, cache>>

\* background_warmup, second half: save the result when it has clusters
WarmupSave ==
    \E i \in DOMAIN warm : \E save_fails \in BOOLEAN :
        /\ warm[i].pc = "computed"
        /\ cache' = IF Len(warm[i].result.clusters) > 0
                    THEN save_cluster_cache(cache, vault_notes, warm[i].result.clusters,
                                            warm[i].result.method, warm[i].result.edges,
                                            now, save_fails)
                    ELSE cache
        /\ warm' = Without(warm, i)
        /\ response' = NoResponse
        /\ UNCHANGED <<vault_notes, vault_mentions, CLUSTERING_AVAILABLE, now>>

(***************************************************************************)
(* A direct call of the orchestration, and the request's compute section   *)
(***************************************************************************)
\* the mention sets an entity may have in a vault of k notes
MentionShapes(k) == {{}, {1}, {k}, 1..k} \cap SUBSET (1..k)

SemanticCall ==
    /\ o_pc = "input"
    /\ \E folder_prefix \in {NoFolder, FolderPrefix} :
       \E env \in Envs(vault_notes, folder_prefix) :
          o_call' = [folder_prefix |-> folder_prefix,
                     out |-> compute_clusters_semantic(vault_notes, vault_mentions,
                                                       folder_prefix,
                                                       CLUSTERING_AVAILABLE, env)]
    /\ o_pc' = "done"
    /\ UNCHANGED <<vault_notes, vault_mentions, CLUSTERING_AVAILABLE, o_route>>

ComputeCall ==
    /\ o_pc = "input"
    /\ \E folder_prefix \in {NoFolder, FolderPrefix} : \E method \in Methods :
       \E env \in Envs(vault_notes, folder_prefix) :
          o_route' = [folder_prefix |-> folder_prefix,
                      method |-> method,
                      out |-> ComputeSection(vault_notes, vault_mentions, method,
                                             folder_prefix, CLUSTERING_AVAILABLE, env)]
    /\ o_pc' = "done"
    /\ UNCHANGED <<vault_notes, vault_mentions, CLUSTERING_AVAILABLE, o_call>>

(***************************************************************************)
(* Specifications                                                          *)
(***************************************************************************)
dbvars == <<vault_notes, vault_mentions, CLUSTERING_AVAILABLE>>
svars == <<now, cache, warm, response>>
ovars == <<o_call, o_route, o_pc>>
kvars == <<s_computed_at, s_stale, s_pc>>
qvars == <<h_last, q_got>>
lvars == <<l_in, l_out, l_pc>>
tvars == <<t_entities, t_clusters, t_pc>>
avars == <<a_args, a_result, a_pc>>
pvars == <<kvars, qvars, lvars, tvars, avars>>
vars == <<mvars, cvars, dbvars, svars, ovars, pvars>>

FirstEnt == "A"

\* the service after start-up: an empty vault, no cache, no request served
Init ==
    /\ l_in = NoResult /\ l_out = NoResult /\ l_pc = "off"
    /\ t_entities = <<>> /\ t_clusters = NoResult /\ t_pc = "off"
    /\ a_args = NoResult /\ a_result = NoResult /\ a_pc = "off"
    /\ h_last = NoCache /\ q_got = NoResult
    /\ s_computed_at = NoResult /\ s_stale = NoResult /\ s_pc = "off"
    /\ m_graph = <<>> /\ m_emb = <<>> /\ m_final = NoResult /\ m_pc = "off"
    /\ c_notes = {} /\ c_mentions = {} /\ c_black = {} /\ c_info = NoResult
    /\ c_order = <<>> /\ c_hubs = <<>> /\ c_pick = NoResult /\ c_pc = "off"
    /\ o_call = NoResult /\ o_route = NoResult /\ o_pc = "off"
    /\ vault_notes = <<>>
    /\ vault_mentions = {}
    /\ CLUSTERING_AVAILABLE = TRUE
    /\ now = 0
    /\ cache = NoCache
    /\ warm = <<>>
    /\ response = NoResponse

Next ==
    \/ Tick /\ UNCHANGED <<mvars, cvars, ovars, pvars>>
    \/ SyncNote /\ UNCHANGED <<mvars, cvars, ovars, pvars>>
    \/ ProcessAI /\ UNCHANGED <<mvars, cvars, ovars, pvars>>
    \/ Invalidate /\ UNCHANGED <<mvars, cvars, ovars, pvars>>
    \/ PlainRequest /\ UNCHANGED <<mvars, cvars, ovars, pvars>>
    \/ WarmupRequest /\ UNCHANGED <<mvars, cvars, ovars, pvars>>
    \/ WarmupCompute /\ UNCHANGED <<mvars, cvars, ovars, pvars>>
    \/ WarmupSave /\ UNCHANGED <<mvars, cvars, ovars, pvars>>

Spec == Init /\ [][Next]_vars

\* the service when every request carries folder_prefix (with or without
\* warmup): a vault of one note, with or without an earlier cache entry
FolderInit ==
    /\ l_in = NoResult /\ l_out = NoResult /\ l_pc = "off"
    /\ t_entities = <<>> /\ t_clusters = NoResult /\ t_pc = "off"
    /\ a_args = NoResult /\ a_result = NoResult /\ a_pc = "off"
    /\ h_last = NoCache /\ q_got = NoResult
    /\ s_computed_at = NoResult /\ s_stale = NoResult /\ s_pc = "off"
    /\ m_graph = <<>> /\ m_emb = <<>> /\ m_final = NoResult /\ m_pc = "off"
    /\ c_notes = {} /\ c_mentions = {} /\ c_black = {} /\ c_info = NoResult
    /\ c_order = <<>> /\ c_hubs = <<>> /\ c_pick = NoResult /\ c_pc = "off"
    /\ o_call = NoResult /\ o_route = NoResult /\ o_pc = "off"
    /\ vault_notes = <<[updated_at |-> Stamp(NoteForm[1], 0), embedding |-> FALSE]>>
    /\ vault_mentions = {}
    /\ CLUSTERING_AVAILABLE = TRUE
    /\ now = 0
    /\ cache \in {NoCache, EarlierEntry}
    /\ warm = <<>>
    /\ response = NoResponse

FolderNext ==
    \/ Tick /\ UNCHANGED <<mvars, cvars, ovars, pvars>>
    \/ SyncNote /\ UNCHANGED <<mvars, cvars, ovars, pvars>>
    \/ ProcessAI /\ UNCHANGED <<mvars, cvars, ovars, pvars>>
    \/ FolderRequest /\ UNCHANGED <<mvars, cvars, ovars, pvars>>
    \/ WarmupRequest /\ UNCHANGED <<mvars, cvars, ovars, pvars>>
    \/ WarmupCompute /\ UNCHANGED <<mvars, cvars, ovars, pvars>>
    \/ WarmupSave /\ UNCHANGED <<mvars, cvars, ovars, pvars>>

SpecFolder == FolderInit /\ [][FolderNext]_vars

\* the service under warmup requests only, on the vault of SpecFolder
WarmNext ==
    \/ Tick /\ UNCHANGED <<mvars, cvars, ovars, pvars>>
    \/ SyncNote /\ UNCHANGED <<mvars, cvars, ovars, pvars>>
    \/ ProcessAI /\ UNCHANGED <<mvars, cvars, ovars, pvars>>
    \/ WarmupBurst /\ UNCHANGED <<mvars, cvars, ovars, pvars>>
    \/ WarmupCompute /\ UNCHANGED <<mvars, cvars, ovars, pvars>>
    \/ WarmupSave /\ UNCHANGED <<mvars, cvars, ovars, pvars>>

SpecWarm == FolderInit /\ [][WarmNext]_vars

\* the service with a corrupt cache node: whole-vault requests whose only
\* possible failure is the cache read
CorruptInit ==
    /\ l_in = NoResult /\ l_out = NoResult /\ l_pc = "off"
    /\ t_entities = <<>> /\ t_clusters = NoResult /\ t_pc = "off"
    /\ a_args = NoResult /\ a_result = NoResult /\ a_pc = "off"
    /\ h_last = NoCache /\ q_got = NoResult
    /\ s_computed_at = NoResult /\ s_stale = NoResult /\ s_pc = "off"
    /\ m_graph = <<>> /\ m_emb = <<>> /\ m_final = NoResult /\ m_pc = "off"
    /\ c_notes = {} /\ c_mentions = {} /\ c_black = {} /\ c_info = NoResult
    /\ c_order = <<>> /\ c_hubs = <<>> /\ c_pick = NoResult /\ c_pc = "off"
    /\ o_call = NoResult /\ o_route = NoResult /\ o_pc = "off"
    /\ vault_notes = <<[updated_at |-> Stamp(NoteForm[1], 0), embedding |-> FALSE]>>
    /\ vault_mentions = {}
    /\ CLUSTERING_AVAILABLE \in BOOLEAN
    /\ now = 0
    /\ cache = CorruptEntry
    /\ warm = <<>>
    /\ response = NoResponse

CorruptNext ==
    \/ Tick /\ UNCHANGED <<mvars, cvars, ovars, pvars>>
    \/ SyncNote /\ UNCHANGED <<mvars, cvars, ovars, pvars>>
    \/ ProcessAI /\ UNCHANGED <<mvars, cvars, ovars, pvars>>
    \/ SoundRequest /\ UNCHANGED <<mvars, cvars, ovars, pvars>>
    \/ ReadFailRequest /\ UNCHANGED <<mvars, cvars, ovars, pvars>>

SpecCorrupt == CorruptInit /\ [][CorruptNext]_vars

\* entity_uuids without repetition
UuidLists ==
    {us \in UNION {[1..k -> 1..MaxUuids] : k \in 0..MaxUuids} :
        \A i, k \in DOMAIN us : i # k => us[i] # us[k]}

\* get_relates_to_edges: RELATES_TO relations between the given uuids
EdgeSets(entity_uuids) ==
    SUBSET {e \in SeqToSet(entity_uuids) \X SeqToSet(entity_uuids) :
               e[1] < e[2] \/ (e[1] = 1 /\ e[2] = 1)}

\* the arguments of one call of cluster_by_graph_louvain
LouvainInit ==
    /\ h_last = NoCache /\ q_got = NoResult
    /\ s_computed_at = NoResult /\ s_stale = NoResult /\ s_pc = "off"
    /\ m_graph = <<>> /\ m_emb = <<>> /\ m_final = NoResult /\ m_pc = "off"
    /\ c_notes = {} /\ c_mentions = {} /\ c_black = {} /\ c_info = NoResult
    /\ c_order = <<>> /\ c_hubs = <<>> /\ c_pick = NoResult /\ c_pc = "off"
    /\ o_call = NoResult /\ o_route = NoResult /\ o_pc = "off"
    /\ vault_notes = <<>> /\ vault_mentions = {} /\ CLUSTERING_AVAILABLE = TRUE
    /\ now = 0 /\ cache = NoCache /\ warm = <<>> /\ response = NoResponse
    /\ \E entity_uuids \in UuidLists : \E edges \in EdgeSets(entity_uuids) :
       \E networkx_available \in BOOLEAN :
          l_in = [entity_uuids |-> entity_uuids, edges |-> edges,
                  NETWORKX_AVAILABLE |-> networkx_available]
    /\ l_out = NoResult
    /\ l_pc = "input"
    /\ t_entities = <<>> /\ t_clusters = NoResult /\ t_pc = "off"
    /\ a_args = NoResult /\ a_result = NoResult /\ a_pc = "off"

LouvainCall ==
    /\ l_pc = "input"
    /\ \E raises \in BOOLEAN :
       \E communities \in LouvainCommunities(GraphNodes(l_in.entity_uuids, l_in.edges),
                                             l_in.edges) :
          l_out' = [path |-> IF ~l_in.NETWORKX_AVAILABLE THEN "unavailable"
                             ELSE IF l_in.edges = {} THEN "no_edges"
                             ELSE IF raises THEN "failure" ELSE "normal",
                    ids |-> cluster_by_graph_louvain(l_in.entity_uuids, l_in.edges,
                                                     l_in.NETWORKX_AVAILABLE,
                                                     communities, raises)]
    /\ l_pc' = "done"
    /\ UNCHANGED l_in

LouvainNext == LouvainCall /\ UNCHANGED <<mvars, cvars, dbvars, svars, ovars, kvars, qvars, tvars, avars>>

SpecLouvain == LouvainInit /\ [][LouvainNext]_vars

\* the largest number of projection rows of one call
MaxRows == 3

\* mention counts below, at and above the cap of the importance score
MentionCounts == {1, 99, 101}

\* rows of cypher_projection: one per entity node; a node without id
\* property (a Graphiti Entity, which carries uuid) has entity_id None
RowSet ==
    [entity_id : {"A", "B", "C", NoEntityId},
     type : {"Topic", "Project"},
     mention_count : MentionCounts]

TypeInit ==
    /\ l_in = NoResult /\ l_out = NoResult /\ l_pc = "off"
    /\ h_last = NoCache /\ q_got = NoResult
    /\ s_computed_at = NoResult /\ s_stale = NoResult /\ s_pc = "off"
    /\ m_graph = <<>> /\ m_emb = <<>> /\ m_final = NoResult /\ m_pc = "off"
    /\ c_notes = {} /\ c_mentions = {} /\ c_black = {} /\ c_info = NoResult
    /\ c_order = <<>> /\ c_hubs = <<>> /\ c_pick = NoResult /\ c_pc = "off"
    /\ o_call = NoResult /\ o_route = NoResult /\ o_pc = "off"
    /\ vault_notes = <<>> /\ vault_mentions = {} /\ CLUSTERING_AVAILABLE = TRUE
    /\ now = 0 /\ cache = NoCache /\ warm = <<>> /\ response = NoResponse
    /\ t_entities \in {rows \in UNION {[1..k -> RowSet] : k \in 1..MaxRows} :
                          \A i, k \in DOMAIN rows :
                             (i # k /\ rows[i].entity_id # NoEntityId)
                                 => rows[i].entity_id # rows[k].entity_id}
    /\ t_clusters = NoResult
    /\ t_pc = "input"
    /\ a_args = NoResult /\ a_result = NoResult /\ a_pc = "off"

\* one call of _simple_clustering
TypeCall ==
    /\ t_pc = "input"
    /\ t_clusters' = _simple_clustering(t_entities)
    /\ t_pc' = "done"
    /\ UNCHANGED t_entities

TypeNext == TypeCall /\ UNCHANGED <<mvars, cvars, dbvars, svars, ovars, kvars, qvars, lvars, avars>>

SpecType == TypeInit /\ [][TypeNext]_vars

\* the largest number of clusters of one call of _build_cluster_edges
MaxClusters == 3

\* the entity_ids lists of the clusters: up to two ids, repeats allowed
IdLists == UNION {[1..k -> Ents] : k \in 0..2}

\* the clusters argument: ids cluster_1.., each with an entity_ids list
EdgeInit ==
    /\ l_in = NoResult /\ l_out = NoResult /\ l_pc = "off"
    /\ t_entities = <<>> /\ t_clusters = NoResult /\ t_pc = "off"
    /\ h_last = NoCache /\ q_got = NoResult
    /\ s_computed_at = NoResult /\ s_stale = NoResult /\ s_pc = "off"
    /\ m_graph = <<>> /\ m_emb = <<>> /\ m_final = NoResult /\ m_pc = "off"
    /\ c_notes = {} /\ c_mentions = {} /\ c_black = {} /\ c_info = NoResult
    /\ c_order = <<>> /\ c_hubs = <<>> /\ c_pick = NoResult /\ c_pc = "off"
    /\ o_call = NoResult /\ o_route = NoResult /\ o_pc = "off"
    /\ vault_notes = <<>> /\ vault_mentions = {} /\ CLUSTERING_AVAILABLE = TRUE
    /\ now = 0 /\ cache = NoCache /\ warm = <<>> /\ response = NoResponse
    /\ \E k \in 0..MaxClusters : \E ids \in [1..k -> IdLists] :
          a_args = [clusters |-> [i \in 1..k |-> [id |-> i, entity_ids |-> ids[i]]]]
    /\ a_result = NoResult
    /\ a_pc = "input"

\* one call of _build_cluster_edges
EdgeCall ==
    /\ a_pc = "input"
    /\ a_result' = _build_cluster_edges(a_args.clusters)
    /\ a_pc' = "done"
    /\ UNCHANGED a_args

EdgeNext ==
    EdgeCall /\ UNCHANGED <<mvars, cvars, dbvars, svars, ovars, kvars, qvars, lvars, tvars>>

SpecEdge == EdgeInit /\ [][EdgeNext]_vars

\* the largest count of a type in type_counts
MaxCount == 2

\* hub_entities: up to TopK hubs in rank order; type_counts: a dict of the
\* lowered type tags, as its items in insertion order
HubLists ==
    {h \in UNION {[1..k -> Ents] : k \in 0..TopK} :
        \A i, k \in DOMAIN h : i # k => h[i] # h[k]}

TypeCountDicts ==
    {tc \in UNION {[1..k -> {TypeLower(t) : t \in TypeTags} \X (1..MaxCount)] :
                      k \in 0..Cardinality(TypeTags)} :
        \A i, k \in DOMAIN tc : i # k => tc[i][1] # tc[k][1]}

NameInit ==
    /\ l_in = NoResult /\ l_out = NoResult /\ l_pc = "off"
    /\ t_entities = <<>> /\ t_clusters = NoResult /\ t_pc = "off"
    /\ h_last = NoCache /\ q_got = NoResult
    /\ s_computed_at = NoResult /\ s_stale = NoResult /\ s_pc = "off"
    /\ m_graph = <<>> /\ m_emb = <<>> /\ m_final = NoResult /\ m_pc = "off"
    /\ c_notes = {} /\ c_mentions = {} /\ c_black = {} /\ c_info = NoResult
    /\ c_order = <<>> /\ c_hubs = <<>> /\ c_pick = NoResult /\ c_pc = "off"
    /\ o_call = NoResult /\ o_route = NoResult /\ o_pc = "off"
    /\ vault_notes = <<>> /\ vault_mentions = {} /\ CLUSTERING_AVAILABLE = TRUE
    /\ now = 0 /\ cache = NoCache /\ warm = <<>> /\ response = NoResponse
    /\ \E hub_entities \in HubLists : \E type_counts \in TypeCountDicts :
          a_args = [hub_entities |-> hub_entities, type_counts |-> type_counts]
    /\ a_result = NoResult
    /\ a_pc = "input"

\* one call of generate_cluster_name_from_graph
NameCall ==
    /\ a_pc = "input"
    /\ a_result' = generate_cluster_name_from_graph(a_args.hub_entities,
                                                    a_args.type_counts)
    /\ a_pc' = "done"
    /\ UNCHANGED a_args

NameNext ==
    NameCall /\ UNCHANGED <<mvars, cvars, dbvars, svars, ovars, kvars, qvars, lvars, tvars>>

SpecName == NameInit /\ [][NameNext]_vars

\* the largest recent_updates and the note counts of one call of
\* _build_graph_insights
MaxRecent == 4
NoteCounts == {1, 6, 11}

\* hub_score > 0.7, > 0.4, else
HubTier(hub_score) ==
    IF RLess(Rat(7, 10), hub_score) THEN "high"
    ELSE IF RLess(Rat(4, 10), hub_score) THEN "medium"
    ELSE "low"

\* the bullets about hub_entities, a list of (id, name, score)
HubBullets(hub_entities) ==
    IF hub_entities = <<>> THEN <<>>
    ELSE <<<<"hub", HubTier(hub_entities[1][3]), hub_entities[1][2]>>>>
         \o (IF Len(hub_entities) >= 2
             THEN <<<<"second_hub", hub_entities[2][2]>>>>
             ELSE <<>>)

\* note_count > 10, > 5, else
NoteBullets(note_count) ==
    <<<<"notes", IF note_count > 10 THEN "active"
                 ELSE IF note_count > 5 THEN "growing" ELSE "starting",
        note_count>>>>

\* recent_updates > 3, > 0, else no bullet
RecentBullets(recent_updates) ==
    IF recent_updates > 3 THEN <<<<"recent", "busy", recent_updates>>>>
    ELSE IF recent_updates > 0 THEN <<<<"recent", "some", recent_updates>>>>
    ELSE <<>>

\* the suggested action of the dominant type
TypeBullets(type_counts) ==
    IF type_counts = <<>> THEN <<>>
    ELSE IF DominantType(type_counts) \in {"task", "project", "topic"}
    THEN <<<<"action", DominantType(type_counts)>>>>
    ELSE <<>>

\* _build_graph_insights: insights[:5]
_build_graph_insights(hub_entities, recent_updates, type_counts, note_count) ==
    Take(HubBullets(hub_entities) \o NoteBullets(note_count)
            \o RecentBullets(recent_updates) \o TypeBullets(type_counts), 5)

\* the scores of the top hub: below, at and above the two thresholds
HubScores == {Rat(k, 10) : k \in {3, 4, 5, 7, 8}}

\* hub_entities as find_cluster_hub_entities returns them: up to two hubs
\* here, the second with any lower or equal score
ScoredHubLists ==
    {<<>>}
    \cup {<<<<"A", "A", s>>>> : s \in HubScores}
    \cup {<<<<"A", "A", s>>, <<"B", "B", Rat(3, 10)>>>> : s \in HubScores}

InsightInit ==
    /\ l_in = NoResult /\ l_out = NoResult /\ l_pc = "off"
    /\ t_entities = <<>> /\ t_clusters = NoResult /\ t_pc = "off"
    /\ h_last = NoCache /\ q_got = NoResult
    /\ s_computed_at = NoResult /\ s_stale = NoResult /\ s_pc = "off"
    /\ m_graph = <<>> /\ m_emb = <<>> /\ m_final = NoResult /\ m_pc = "off"
    /\ c_notes = {} /\ c_mentions = {} /\ c_black = {} /\ c_info = NoResult
    /\ c_order = <<>> /\ c_hubs = <<>> /\ c_pick = NoResult /\ c_pc = "off"
    /\ o_call = NoResult /\ o_route = NoResult /\ o_pc = "off"
    /\ vault_notes = <<>> /\ vault_mentions = {} /\ CLUSTERING_AVAILABLE = TRUE
    /\ now = 0 /\ cache = NoCache /\ warm = <<>> /\ response = NoResponse
    /\ \E hub_entities \in ScoredHubLists : \E recent_updates \in 0..MaxRecent :
       \E type_counts \in TypeCountDicts : \E note_count \in NoteCounts :
          a_args = [hub_entities |-> hub_entities, recent_updates |-> recent_updates,
                    type_counts |-> type_counts, note_count |-> note_count]
    /\ a_result = NoResult
    /\ a_pc = "input"

InsightCall ==
    /\ a_pc = "input"
    /\ a_result' = _build_graph_insights(a_args.hub_entities, a_args.recent_updates,
                                         a_args.type_counts, a_args.note_count)
    /\ a_pc' = "done"
    /\ UNCHANGED a_args

InsightNext ==
    InsightCall /\ UNCHANGED <<mvars, cvars, dbvars, svars, ovars, kvars, qvars, lvars, tvars>>

SpecInsight == InsightInit /\ [][InsightNext]_vars

\* hours of a day, and the clock of the calls of _compute_recency_bonus
DayHours == 24
ScoreClock == 960

\* (now - latest).days: whole days, rounded down also below zero
DaysBetween(clock, t) == (clock - t) \div DayHours

\* the datetimes that are not None (a naive one is taken as UTC)
ValidDates(updated_at_list) ==
    SelectSeq(updated_at_list, LAMBDA dt : dt.kind # "none")

\* mutant: days_since_latest is not clamped at 0
LatestDays_Unclamped(valid_dates, clock) ==
    DaysBetween(clock, SetMax({valid_dates[i].t : i \in DOMAIN valid_dates}))

\* days_since_latest = max((now - latest).days, 0)
LatestDays(valid_dates, clock) ==
    IntMax(DaysBetween(clock, SetMax({valid_dates[i].t : i \in DOMAIN valid_dates})), 0)

\* _compute_recency_bonus: (recency_bonus, recent_updates)
_compute_recency_bonus(updated_at_list, clock) ==
    IF ValidDates(updated_at_list) = <<>> THEN <<RZero, 0>>
    ELSE <<RMax(RZero, Rat(30 - LatestDays(ValidDates(updated_at_list), clock), 10)),
           Cardinality({i \in DOMAIN ValidDates(updated_at_list) :
                           ValidDates(updated_at_list)[i].t >= clock - 7 * DayHours})>>

\* sum of the centrality scores of a list
RECURSIVE SumScores(_)
SumScores(scores) ==
    IF scores = <<>> THEN RZero ELSE RAdd(Head(scores), SumScores(Tail(scores)))

\* avg_centrality over entity_info.values()
AvgCentrality(scores) ==
    RMul(SumScores(scores), Rat(1, IntMax(Len(scores), 1)))

\* importance_score = min(10.0, (avg_centrality * 8.0) + recency_bonus)
SemanticImportance(scores, recency_bonus) ==
    RMin(Rat(10, 1), RAdd(RMul(AvgCentrality(scores), Rat(8, 1)), recency_bonus))

\* the parsed updated_at values of a cluster's notes: None, or a datetime in
\* the future, now, 7 days ago, 7 days and an hour ago, 30 or 40 days ago
ParsedDates ==
    {[kind |-> "none", t |-> 0]}
    \cup {[kind |-> k, t |-> ScoreClock - age] :
            k \in {"aware", "naive"}, age \in {-1, 0, 168, 169, 720, 960}}

\* centrality scores of the entities of a cluster
ScoreLists == UNION {[1..k -> {RZero, Rat(3, 10), ROne}] : k \in 1..2}

ScoreInit ==
    /\ l_in = NoResult /\ l_out = NoResult /\ l_pc = "off"
    /\ t_entities = <<>> /\ t_clusters = NoResult /\ t_pc = "off"
    /\ h_last = NoCache /\ q_got = NoResult
    /\ s_computed_at = NoResult /\ s_stale = NoResult /\ s_pc = "off"
    /\ m_graph = <<>> /\ m_emb = <<>> /\ m_final = NoResult /\ m_pc = "off"
    /\ c_notes = {} /\ c_mentions = {} /\ c_black = {} /\ c_info = NoResult
    /\ c_order = <<>> /\ c_hubs = <<>> /\ c_pick = NoResult /\ c_pc = "off"
    /\ o_call = NoResult /\ o_route = NoResult /\ o_pc = "off"
    /\ vault_notes = <<>> /\ vault_mentions = {} /\ CLUSTERING_AVAILABLE = TRUE
    /\ now = 0 /\ cache = NoCache /\ warm = <<>> /\ response = NoResponse
    /\ \/ \E scores \in ScoreLists :
          \E updates \in UNION {[1..k -> ParsedDates] : k \in 0..2} :
             a_args = [path |-> "semantic", scores |-> scores, updates |-> updates]
       \/ \E total_mentions \in {0, 1, 99, 100, 101, 250} :
             a_args = [path |-> "type", total_mentions |-> total_mentions]
    /\ a_result = NoResult
    /\ a_pc = "input"

\* the importance_score of a cluster of compute_clusters_semantic
SemanticScoreCall ==
    /\ a_pc = "input"
    /\ a_args.path = "semantic"
    /\ a_result' =
          [recency_bonus |-> _compute_recency_bonus(a_args.updates, ScoreClock)[1],
           recent_updates |-> _compute_recency_bonus(a_args.updates, ScoreClock)[2],
           importance_score |->
               SemanticImportance(a_args.scores,
                                  _compute_recency_bonus(a_args.updates, ScoreClock)[1])]
    /\ a_pc' = "done"
    /\ UNCHANGED a_args

\* the importance_score of a cluster of _simple_clustering
TypeScoreCall ==
    /\ a_pc = "input"
    /\ a_args.path = "type"
    /\ a_result' = [importance_score |-> ImportanceScore(a_args.total_mentions)]
    /\ a_pc' = "done"
    /\ UNCHANGED a_args

ScoreNext ==
    \/ SemanticScoreCall /\ UNCHANGED <<mvars, cvars, dbvars, svars, ovars, kvars, qvars, lvars, tvars>>
    \/ TypeScoreCall /\ UNCHANGED <<mvars, cvars, dbvars, svars, ovars, kvars, qvars, lvars, tvars>>

SpecScore == ScoreInit /\ [][ScoreNext]_vars

(***************************************************************************)
(* entity_cluster_service: PKM type clustering and its inter-cluster edges *)
(***************************************************************************)
\* None as a pkm_type
NoType == ""

\* PKM_TYPES[cluster_id]["id"], cluster_id = position - 1
PKM_TYPES ==
    <<"Goal", "Project", "Task", "Topic", "Concept", "Question", "Insight", "Resource">>

\* the pkm_type values of an entity: the 8 core types, Person, a value that
\* is none of them, and None
EntityPkmTypes == SeqToSet(PKM_TYPES) \cup {"Person", "Event", NoType}

\* the rows of PKM_EDGE_TYPE_MATRIX: (from_type, to_type) -> edge_type
MatrixRows ==
    {<<"Goal", "Project", "ACHIEVED_BY">>, <<"Goal", "Task", "REQUIRES">>,
     <<"Goal", "Goal", "CONTRIBUTES_TO">>, <<"Goal", "Topic", "FOCUSES_ON">>,
     <<"Goal", "Concept", "APPLIES">>,
     <<"Project", "Task", "REQUIRES">>, <<"Project", "Goal", "CONTRIBUTES_TO">>,
     <<"Project", "Project", "DEPENDS_ON">>, <<"Project", "Topic", "INVOLVES">>,
     <<"Project", "Concept", "USES">>, <<"Project", "Resource", "REFERENCES">>,
     <<"Project", "Question", "EXPLORES">>, <<"Project", "Insight", "PRODUCES">>,
     <<"Task", "Task", "BLOCKS">>, <<"Task", "Project", "PART_OF">>,
     <<"Task", "Topic", "INVOLVES">>, <<"Task", "Concept", "USES">>,
     <<"Task", "Resource", "REFERENCES">>, <<"Task", "Insight", "PRODUCES">>,
     <<"Topic", "Topic", "RELATED_TO">>, <<"Topic", "Concept", "CONTAINS">>,
     <<"Topic", "Project", "APPLIED_IN">>, <<"Topic", "Resource", "DOCUMENTED_IN">>,
     <<"Topic", "Question", "RAISES">>, <<"Topic", "Insight", "REVEALS">>,
     <<"Concept", "Concept", "RELATES_TO">>, <<"Concept", "Topic", "BELONGS_TO">>,
     <<"Concept", "Project", "APPLIED_IN">>, <<"Concept", "Task", "USED_IN">>,
     <<"Concept", "Resource", "DEFINED_IN">>,
     <<"Question", "Insight", "ANSWERED_BY">>, <<"Question", "Topic", "ABOUT">>,
     <<"Question", "Question", "LEADS_TO">>, <<"Question", "Project", "EXPLORED_IN">>,
     <<"Question", "Resource", "ADDRESSED_IN">>,
     <<"Insight", "Resource", "DERIVED_FROM">>, <<"Insight", "Insight", "SUPPORTS">>,
     <<"Insight", "Question", "ANSWERS">>, <<"Insight", "Project", "INFORMS">>,
     <<"Insight", "Topic", "ABOUT">>, <<"Insight", "Concept", "CLARIFIES">>,
     <<"Resource", "Topic", "COVERS">>, <<"Resource", "Concept", "DEFINES">>,
     <<"Resource", "Resource", "CITES">>, <<"Resource", "Question", "ADDRESSES">>,
     <<"Resource", "Insight", "PROVIDES">>, <<"Resource", "Project", "INFORMS">>,
     <<"Person", "Project", "WORKS_ON">>, <<"Person", "Task", "ASSIGNED_TO">>,
     <<"Person", "Topic", "INTERESTED_IN">>, <<"Person", "Person", "COLLABORATES_WITH">>}

\* mutant: the table is read with the pair reversed
MatrixGet_Reversed(from_type, to_type) ==
    IF \E r \in MatrixRows : r[1] = to_type /\ r[2] = from_type
    THEN (CHOOSE r \in MatrixRows : r[1] = to_type /\ r[2] = from_type)[3]
    ELSE NoType

\* PKM_EDGE_TYPE_MATRIX.get((from_type, to_type)): the edge_type, or None
MatrixGet(from_type, to_type) ==
    IF \E r \in MatrixRows : r[1] = from_type /\ r[2] = to_type
    THEN (CHOOSE r \in MatrixRows : r[1] = from_type /\ r[2] = to_type)[3]
    ELSE NoType

\* value or "Topic"
OrTopic(value) == IF value = NoType THEN "Topic" ELSE value

\* infer_semantic_edge_type(from_type, to_type)["edge_type"]
infer_semantic_edge_type(from_type, to_type) ==
    IF MatrixGet(OrTopic(from_type), OrTopic(to_type)) # NoType
    THEN MatrixGet(OrTopic(from_type), OrTopic(to_type))
    ELSE "RELATES_TO"

\* type_to_cluster.get(e.get("pkm_type", "Topic"), 3)
TypeToCluster(pkm_type) ==
    CASE pkm_type = "Goal" -> 0
      [] pkm_type = "Project" -> 1
      [] pkm_type = "Task" -> 2
      [] pkm_type = "Topic" -> 3
      [] pkm_type = "Concept" -> 4
      [] pkm_type = "Question" -> 5
      [] pkm_type = "Insight" -> 6
      [] pkm_type = "Resource" -> 7
      [] pkm_type = "Person" -> 3
      [] OTHER -> 3

\* mutant: an entity without a known type is left out
cluster_by_pkm_type_KnownOnly(entities) ==
    [u \in {entities[i].uuid : i \in {k \in DOMAIN entities :
                entities[k].pkm_type \in SeqToSet(PKM_TYPES)}} |->
        TypeToCluster(entities[CHOOSE i \in DOMAIN entities :
                                   entities[i].uuid = u].pkm_type)]

\* cluster_by_pkm_type: {uuid: cluster id}; a later entity with the same
\* uuid overwrites an earlier one
cluster_by_pkm_type(entities) ==
    [u \in {entities[i].uuid : i \in DOMAIN entities} |->
        TypeToCluster(entities[CHOOSE i \in DOMAIN entities :
                                   /\ entities[i].uuid = u
                                   /\ \A k \in (i + 1)..Len(entities) :
                                         entities[k].uuid # u].pkm_type)]

\* the keys of pkm_clusters in insertion order
RECURSIVE FirstOccurrences(_, _)
FirstOccurrences(uuids, seen) ==
    IF uuids = <<>> THEN <<>>
    ELSE IF Head(uuids) \in seen THEN FirstOccurrences(Tail(uuids), seen)
    ELSE <<Head(uuids)>> \o FirstOccurrences(Tail(uuids), seen \cup {Head(uuids)})

\* type_info["id"].lower()
PkmLower(pkm_type) ==
    CASE pkm_type = "Goal" -> "goal"
      [] pkm_type = "Project" -> "project"
      [] pkm_type = "Task" -> "task"
      [] pkm_type = "Topic" -> "topic"
      [] pkm_type = "Concept" -> "concept"
      [] pkm_type = "Question" -> "question"
      [] pkm_type = "Insight" -> "insight"
      [] pkm_type = "Resource" -> "resource"
      [] OTHER -> pkm_type

\* the cluster dict of one cluster_id in range(8)
PkmCluster(cluster_id, uuids) ==
    [id |-> <<"cluster", PkmLower(PKM_TYPES[cluster_id + 1])>>,
     pkm_type |-> PKM_TYPES[cluster_id + 1],
     entity_count |-> Len(uuids),
     entity_uuids |-> uuids]

\* string order of two cluster ids "cluster_<type>"
IdRank(id) ==
    CASE id[2] = "concept" -> 1
      [] id[2] = "goal" -> 2
      [] id[2] = "insight" -> 3
      [] id[2] = "project" -> 4
      [] id[2] = "question" -> 5
      [] id[2] = "resource" -> 6
      [] id[2] = "task" -> 7
      [] id[2] = "topic" -> 8
      [] OTHER -> 9

\* uuid_to_cluster: the id of the last cluster that lists the uuid
UuidToCluster(clusters) ==
    [u \in UNION {SeqToSet(clusters[i].entity_uuids) : i \in DOMAIN clusters} |->
        clusters[CHOOSE i \in DOMAIN clusters :
                    /\ u \in SeqToSet(clusters[i].entity_uuids)
                    /\ \A k \in (i + 1)..Len(clusters) :
                          u \notin SeqToSet(clusters[k].entity_uuids)].id]

\* the key a RELATES_TO edge counts under: the two cluster ids sorted, or
\* no key when an end is in no cluster or both are in the same
EdgeKey(edge, uuid_to_cluster) ==
    IF edge[1] \notin DOMAIN uuid_to_cluster \/ edge[2] \notin DOMAIN uuid_to_cluster
    THEN <<>>
    ELSE IF uuid_to_cluster[edge[1]] = uuid_to_cluster[edge[2]] THEN <<>>
    ELSE IF IdRank(uuid_to_cluster[edge[1]]) <= IdRank(uuid_to_cluster[edge[2]])
    THEN <<uuid_to_cluster[edge[1]], uuid_to_cluster[edge[2]]>>
    ELSE <<uuid_to_cluster[edge[2]], uuid_to_cluster[edge[1]]>>

\* the keys of a list of edges
RECURSIVE EdgeKeys(_, _)
EdgeKeys(relates_to_edges, uuid_to_cluster) ==
    IF relates_to_edges = <<>> THEN <<>>
    ELSE <<EdgeKey(Head(relates_to_edges), uuid_to_cluster)>>
         \o EdgeKeys(Tail(relates_to_edges), uuid_to_cluster)

\* the pkm_type of the cluster with the given id
ClusterTypeOf(clusters, id) ==
    IF \E i \in DOMAIN clusters : clusters[i].id = id
    THEN clusters[CHOOSE i \in DOMAIN clusters : clusters[i].id = id].pkm_type
    ELSE "Topic"

\* the edge dict of one key of cluster_edge_counts
ClusterEdge(key, keys, clusters) ==
    [from |-> key[1],
     to |-> key[2],
     weight |-> Cardinality({i \in DOMAIN keys : keys[i] = key}),
     relation_type |-> infer_semantic_edge_type(ClusterTypeOf(clusters, key[1]),
                                                ClusterTypeOf(clusters, key[2]))]

RECURSIVE ClusterEdges(_, _, _)
ClusterEdges(key_order, keys, clusters) ==
    IF key_order = <<>> THEN <<>>
    ELSE <<ClusterEdge(Head(key_order), keys, clusters)>>
         \o ClusterEdges(Tail(key_order), keys, clusters)

\* _compute_cluster_edges: one edge per key of cluster_edge_counts, in
\* insertion order
_compute_cluster_edges(clusters, relates_to_edges) ==
    ClusterEdges(FirstOccurrences(EdgeKeys(relates_to_edges, UuidToCluster(clusters)),
                                  {<<>>}),
                 EdgeKeys(relates_to_edges, UuidToCluster(clusters)),
                 clusters)

\* cluster_groups.get(cluster_id, [])
ClusterGroup(pkm_clusters, key_order, cluster_id) ==
    SelectSeq(key_order, LAMBDA u : pkm_clusters[u] = cluster_id)

\* the clusters of range(8)
PkmClusters(pkm_clusters, key_order) ==
    [i \in 1..8 |-> PkmCluster(i - 1, ClusterGroup(pkm_clusters, key_order, i - 1))]

\* sum(c["entity_count"] for c in clusters)
RECURSIVE SumEntityCount(_)
SumEntityCount(clusters) ==
    IF clusters = <<>> THEN 0
    ELSE Head(clusters).entity_count + SumEntityCount(Tail(clusters))

\* the result of compute_entity_clusters_hybrid for the fetched entities
HybridResult(entities, relates_to_edges, pkm_clusters) ==
    [clusters |-> PkmClusters(pkm_clusters,
                              FilterSeq(FirstOccurrences([i \in DOMAIN entities |->
                                                             entities[i].uuid], {}),
                                        DOMAIN pkm_clusters)),
     edges |-> _compute_cluster_edges(
                   PkmClusters(pkm_clusters,
                               FilterSeq(FirstOccurrences([i \in DOMAIN entities |->
                                                              entities[i].uuid], {}),
                                         DOMAIN pkm_clusters)),
                   relates_to_edges),
     total_entities |-> Len(entities),
     clustered_entities |->
         SumEntityCount(PkmClusters(pkm_clusters,
                                    FilterSeq(FirstOccurrences([i \in DOMAIN entities |->
                                                                   entities[i].uuid], {}),
                                              DOMAIN pkm_clusters))),
     method |-> "pkm_type"]

\* compute_entity_clusters_hybrid; entities and relates_to_edges are what
\* the two queries return
compute_entity_clusters_hybrid(entities, relates_to_edges) ==
    IF entities = <<>>
    THEN [clusters |-> <<>>, edges |-> <<>>, total_entities |-> 0, method |-> "pkm_type"]
    ELSE HybridResult(entities, relates_to_edges, cluster_by_pkm_type(entities))

\* the uuids of the fetched entities and the largest number of RELATES_TO
\* edges between them
EntityUuids == {"u1", "u2"}
MaxRelates == 2

\* get_entities_with_embeddings returns one entry per uuid
EntityLists ==
    {es \in UNION {[1..k -> [uuid : EntityUuids, pkm_type : EntityPkmTypes]] :
                      k \in 0..Cardinality(EntityUuids)} :
        \A i, k \in DOMAIN es : i # k => es[i].uuid # es[k].uuid}

RelatesLists == UNION {[1..k -> EntityUuids \X EntityUuids] : k \in 0..MaxRelates}

HybridInit ==
    /\ l_in = NoResult /\ l_out = NoResult /\ l_pc = "off"
    /\ t_entities = <<>> /\ t_clusters = NoResult /\ t_pc = "off"
    /\ h_last = NoCache /\ q_got = NoResult
    /\ s_computed_at = NoResult /\ s_stale = NoResult /\ s_pc = "off"
    /\ m_graph = <<>> /\ m_emb = <<>> /\ m_final = NoResult /\ m_pc = "off"
    /\ c_notes = {} /\ c_mentions = {} /\ c_black = {} /\ c_info = NoResult
    /\ c_order = <<>> /\ c_hubs = <<>> /\ c_pick = NoResult /\ c_pc = "off"
    /\ o_call = NoResult /\ o_route = NoResult /\ o_pc = "off"
    /\ vault_notes = <<>> /\ vault_mentions = {} /\ CLUSTERING_AVAILABLE = TRUE
    /\ now = 0 /\ cache = NoCache /\ warm = <<>> /\ response = NoResponse
    /\ \/ \E entities \in EntityLists : \E relates_to_edges \in RelatesLists :
             a_args = [call |-> "hybrid", entities |-> entities,
                       relates_to_edges |-> relates_to_edges]
       \/ \E from_type \in EntityPkmTypes : \E to_type \in EntityPkmTypes :
             a_args = [call |-> "infer", from_type |-> from_type, to_type |-> to_type]
    /\ a_result = NoResult
    /\ a_pc = "input"

HybridCall ==
    /\ a_pc = "input"
    /\ a_args.call = "hybrid"
    /\ a_result' = compute_entity_clusters_hybrid(a_args.entities, a_args.relates_to_edges)
    /\ a_pc' = "done"
    /\ UNCHANGED a_args

InferCall ==
    /\ a_pc = "input"
    /\ a_args.call = "infer"
    /\ a_result' = [edge_type |-> infer_semantic_edge_type(a_args.from_type,
                                                           a_args.to_type)]
    /\ a_pc' = "done"
    /\ UNCHANGED a_args

HybridNext ==
    \/ HybridCall /\ UNCHANGED <<mvars, cvars, dbvars, svars, ovars, kvars, qvars, lvars, tvars>>
    \/ InferCall /\ UNCHANGED <<mvars, cvars, dbvars, svars, ovars, kvars, qvars, lvars, tvars>>

SpecHybrid == HybridInit /\ [][HybridNext]_vars

(***************************************************************************)
(* utils/cache.py: TTLCache                                                *)
(***************************************************************************)
\* the keys, the prefixes of clear_prefix, ttl_seconds, and the bounds of the
\* clock and of the number of calls
CacheKeys == {"a:1", "a:2", "b:1"}
CachePrefixes == {"a:", "b:"}
StartsWith(k, prefix) ==
    \/ prefix = "a:" /\ k \in {"a:1", "a:2"}
    \/ prefix = "b:" /\ k = "b:1"
TtlSeconds == 1
MaxClock == 2
MaxOps == 4

\* the keys of the OrderedDict, oldest first
StoreKeys(store) == [i \in DOMAIN store |-> store[i].key]

\* self.store.pop(key, None)
StorePop(store, key) == SelectSeq(store, LAMBDA item : item.key # key)

\* the item of a key that the store holds
StoreItem(store, key) == store[CHOOSE i \in DOMAIN store : store[i].key = key]

\* mutant: a hit leaves the order of the store as it is
TTLGet_NoMove(store, key, clock) ==
    IF key \notin SeqToSet(StoreKeys(store)) THEN store
    ELSE IF StoreItem(store, key).expires_at < clock THEN StorePop(store, key)
    ELSE store

\* TTLCache.get: the store after the call; an expired item is removed, a
\* hit moves the item to the end
TTLGet(store, key, clock) ==
    IF key \notin SeqToSet(StoreKeys(store)) THEN store
    ELSE IF StoreItem(store, key).expires_at < clock THEN StorePop(store, key)
    ELSE Append(StorePop(store, key), StoreItem(store, key))

\* whether TTLCache.get returns the value
GetHits(store, key, clock) ==
    /\ key \in SeqToSet(StoreKeys(store))
    /\ StoreItem(store, key).expires_at >= clock

\* popitem(last=False) when the store is full
EvictOldest(store, maxsize) ==
    IF Len(store) >= maxsize THEN Tail(store) ELSE store

\* TTLCache.set: the store after the call
TTLSet(store, key, value, clock, ttl, maxsize) ==
    Append(EvictOldest(StorePop(store, key), maxsize),
           [key |-> key, value |-> value, expires_at |-> clock + ttl])

\* TTLCache.clear_prefix
TTLClearPrefix(store, prefix) ==
    SelectSeq(store, LAMBDA item : ~StartsWith(item.key, prefix))

\* a_args: the cache's maxsize and the clock; a_result: the store, and for
\* each key the number of the call that last set it and that last used it
CacheStep(store, op, key, used, born) ==
    /\ a_result.ops < MaxOps
    /\ a_result' = [store |-> store,
                    ops |-> a_result.ops + 1,
                    last |-> [op |-> op, key |-> key],
                    used |-> [k \in CacheKeys |->
                                 IF k \notin SeqToSet(StoreKeys(store)) THEN 0
                                 ELSE IF k \in used THEN a_result.ops + 1
                                 ELSE a_result.used[k]],
                    born |-> [k \in CacheKeys |->
                                 IF k \notin SeqToSet(StoreKeys(store)) THEN 0
                                 ELSE IF k \in born THEN a_result.ops + 1
                                 ELSE a_result.born[k]]]
    /\ UNCHANGED <<a_args, a_pc>>

TTLInit ==
    /\ l_in = NoResult /\ l_out = NoResult /\ l_pc = "off"
    /\ t_entities = <<>> /\ t_clusters = NoResult /\ t_pc = "off"
    /\ h_last = NoCache /\ q_got = NoResult
    /\ s_computed_at = NoResult /\ s_stale = NoResult /\ s_pc = "off"
    /\ m_graph = <<>> /\ m_emb = <<>> /\ m_final = NoResult /\ m_pc = "off"
    /\ c_notes = {} /\ c_mentions = {} /\ c_black = {} /\ c_info = NoResult
    /\ c_order = <<>> /\ c_hubs = <<>> /\ c_pick = NoResult /\ c_pc = "off"
    /\ o_call = NoResult /\ o_route = NoResult /\ o_pc = "off"
    /\ vault_notes = <<>> /\ vault_mentions = {} /\ CLUSTERING_AVAILABLE = TRUE
    /\ now = 0 /\ cache = NoCache /\ warm = <<>> /\ response = NoResponse
    /\ \E maxsize \in 1..2 : a_args = [maxsize |-> maxsize, clock |-> 0]
    /\ a_result = [store |-> <<>>, ops |-> 0, last |-> [op |-> "init", key |-> ""],
                   used |-> [k \in CacheKeys |-> 0], born |-> [k \in CacheKeys |-> 0]]
    /\ a_pc = "cache"

\* time.time() advances
CacheTick ==
    /\ a_pc = "cache"
    /\ a_args.clock < MaxClock
    /\ a_args' = [a_args EXCEPT !.clock = a_args.clock + 1]
    /\ UNCHANGED <<a_result, a_pc>>

CacheSet ==
    /\ a_pc = "cache"
    /\ \E key \in CacheKeys :
          CacheStep(TTLSet(a_result.store, key, "v", a_args.clock, TtlSeconds,
                           a_args.maxsize),
                    "set", key, {key}, {key})

CacheGet ==
    /\ a_pc = "cache"
    /\ \E key \in CacheKeys :
          CacheStep(TTLGet(a_result.store, key, a_args.clock), "get", key,
                    IF GetHits(a_result.store, key, a_args.clock) THEN {key} ELSE {},
                    {})

CacheClear ==
    /\ a_pc = "cache"
    /\ \E key \in CacheKeys :
          CacheStep(StorePop(a_result.store, key), "clear", key, {}, {})

CacheClearPrefix ==
    /\ a_pc = "cache"
    /\ \E prefix \in CachePrefixes :
          CacheStep(TTLClearPrefix(a_result.store, prefix), "clear_prefix", prefix, {}, {})

CacheClearAll ==
    /\ a_pc = "cache"
    /\ CacheStep(<<>>, "clear_all", "", {}, {})

TTLNext ==
    \/ CacheTick /\ UNCHANGED <<mvars, cvars, dbvars, svars, ovars, kvars, qvars, lvars, tvars>>
    \/ CacheSet /\ UNCHANGED <<mvars, cvars, dbvars, svars, ovars, kvars, qvars, lvars, tvars>>
    \/ CacheGet /\ UNCHANGED <<mvars, cvars, dbvars, svars, ovars, kvars, qvars, lvars, tvars>>
    \/ CacheClear /\ UNCHANGED <<mvars, cvars, dbvars, svars, ovars, kvars, qvars, lvars, tvars>>
    \/ CacheClearPrefix /\ UNCHANGED <<mvars, cvars, dbvars, svars, ovars, kvars, qvars, lvars, tvars>>
    \/ CacheClearAll /\ UNCHANGED <<mvars, cvars, dbvars, svars, ovars, kvars, qvars, lvars, tvars>>

SpecTTL == TTLInit /\ [][TTLNext]_vars

\* a vault of k notes of which the first j have an embedding, every entity
\* mentioned by none, the first, the last or all of the notes
OrchInit ==
    /\ l_in = NoResult /\ l_out = NoResult /\ l_pc = "off"
    /\ t_entities = <<>> /\ t_clusters = NoResult /\ t_pc = "off"
    /\ a_args = NoResult /\ a_result = NoResult /\ a_pc = "off"
    /\ h_last = NoCache /\ q_got = NoResult
    /\ s_computed_at = NoResult /\ s_stale = NoResult /\ s_pc = "off"
    /\ m_graph = <<>> /\ m_emb = <<>> /\ m_final = NoResult /\ m_pc = "off"
    /\ c_notes = {} /\ c_mentions = {} /\ c_black = {} /\ c_info = NoResult
    /\ c_order = <<>> /\ c_hubs = <<>> /\ c_pick = NoResult /\ c_pc = "off"
    /\ now = 0 /\ cache = NoCache /\ warm = <<>> /\ response = NoResponse
    /\ \E k \in 0..MaxNotes : \E j \in 0..k :
       \E shape \in [Ents -> MentionShapes(k)] :
          /\ vault_notes = [n \in 1..k |-> [updated_at |-> Stamp("utc", 0),
                                            embedding |-> n <= j]]
          /\ vault_mentions = {m \in (1..k) \X Ents : m[1] \in shape[m[2]]}
    /\ CLUSTERING_AVAILABLE \in BOOLEAN
    /\ o_call = NoResult
    /\ o_route = NoResult
    /\ o_pc = "input"

\* a vault large enough for two HDBSCAN clusters of min_cluster_size notes:
\* LargeVault - 1 or LargeVault notes, all with an embedding
LargeVault == 10

LargeInit ==
    /\ l_in = NoResult /\ l_out = NoResult /\ l_pc = "off"
    /\ t_entities = <<>> /\ t_clusters = NoResult /\ t_pc = "off"
    /\ a_args = NoResult /\ a_result = NoResult /\ a_pc = "off"
    /\ h_last = NoCache /\ q_got = NoResult
    /\ s_computed_at = NoResult /\ s_stale = NoResult /\ s_pc = "off"
    /\ m_graph = <<>> /\ m_emb = <<>> /\ m_final = NoResult /\ m_pc = "off"
    /\ c_notes = {} /\ c_mentions = {} /\ c_black = {} /\ c_info = NoResult
    /\ c_order = <<>> /\ c_hubs = <<>> /\ c_pick = NoResult /\ c_pc = "off"
    /\ now = 0 /\ cache = NoCache /\ warm = <<>> /\ response = NoResponse
    /\ \E k \in (LargeVault - 1)..LargeVault :
       \E shape \in [Ents -> MentionShapes(k)] :
          /\ vault_notes = [n \in 1..k |-> [updated_at |-> Stamp("utc", 0),
                                            embedding |-> TRUE]]
          /\ vault_mentions = {m \in (1..k) \X Ents : m[1] \in shape[m[2]]}
    /\ CLUSTERING_AVAILABLE = TRUE
    /\ o_call = NoResult
    /\ o_route = NoResult
    /\ o_pc = "input"

LargeNext == SemanticCall /\ UNCHANGED <<mvars, cvars, svars, pvars>>

SpecLarge == LargeInit /\ [][LargeNext]_vars

\* the first of two runs of compute_clusters_semantic over the same vault
FirstRun ==
    /\ o_pc = "input"
    /\ \E folder_prefix \in {NoFolder, FolderPrefix} :
       \E env \in Envs(vault_notes, folder_prefix) :
          o_call' = [folder_prefix |-> folder_prefix,
                     env |-> env,
                     out |-> compute_clusters_semantic(vault_notes, vault_mentions,
                                                       folder_prefix,
                                                       CLUSTERING_AVAILABLE, env)]
    /\ o_pc' = "once"
    /\ UNCHANGED <<vault_notes, vault_mentions, CLUSTERING_AVAILABLE, o_route>>

\* the second run: same arguments, same rows in the same order, the same
\* queries failing; the libraries are called again with their fixed seeds
SecondRun ==
    /\ o_pc = "once"
    /\ \E labels \in HdbscanLabelings(EmbeddedNotes(vault_notes, o_call.folder_prefix)) :
          o_route' = [folder_prefix |-> o_call.folder_prefix,
                      method |-> "semantic",
                      out |-> compute_clusters_semantic(
                                  vault_notes, vault_mentions, o_call.folder_prefix,
                                  CLUSTERING_AVAILABLE,
                                  [o_call.env EXCEPT
                                      !.labels = SeededLabels(o_call.env.labels, labels)])]
    /\ o_pc' = "twice"
    /\ UNCHANGED <<vault_notes, vault_mentions, CLUSTERING_AVAILABLE, o_call>>

TwiceNext ==
    \/ FirstRun /\ UNCHANGED <<mvars, cvars, svars, pvars>>
    \/ SecondRun /\ UNCHANGED <<mvars, cvars, svars, pvars>>

SpecTwice == OrchInit /\ [][TwiceNext]_vars

OrchNext ==
    \/ SemanticCall /\ UNCHANGED <<mvars, cvars, svars, pvars>>
    \/ ComputeCall /\ UNCHANGED <<mvars, cvars, svars, pvars>>

SpecOrch == OrchInit /\ [][OrchNext]_vars

\* the arguments of one staleness check: a vault of up to two notes with any
\* updated_at strings, and any computed_at string
StaleForms == {"utc", "offset", "naive"}

StaleStamps ==
    {Stamp(form, t) : form \in StaleForms, t \in Times}
        \cup {Stamp("empty", 0), Stamp("text", 0)}

StaleInit ==
    /\ l_in = NoResult /\ l_out = NoResult /\ l_pc = "off"
    /\ t_entities = <<>> /\ t_clusters = NoResult /\ t_pc = "off"
    /\ a_args = NoResult /\ a_result = NoResult /\ a_pc = "off"
    /\ h_last = NoCache /\ q_got = NoResult
    /\ m_graph = <<>> /\ m_emb = <<>> /\ m_final = NoResult /\ m_pc = "off"
    /\ c_notes = {} /\ c_mentions = {} /\ c_black = {} /\ c_info = NoResult
    /\ c_order = <<>> /\ c_hubs = <<>> /\ c_pick = NoResult /\ c_pc = "off"
    /\ now = 0 /\ cache = NoCache /\ warm = <<>> /\ response = NoResponse
    /\ o_call = NoResult /\ o_route = NoResult /\ o_pc = "off"
    /\ \E ids \in SUBSET VaultNoteIds : \E updated \in [ids -> StaleStamps] :
          vault_notes = [n \in ids |-> [updated_at |-> updated[n],
                                        embedding |-> FALSE]]
    /\ vault_mentions = {}
    /\ CLUSTERING_AVAILABLE = TRUE
    /\ s_computed_at \in StaleStamps
    /\ s_stale = NoResult
    /\ s_pc = "input"

\* one call of is_cluster_cache_stale; its query may fail
StaleCall ==
    /\ s_pc = "input"
    /\ \E query_fails \in BOOLEAN :
          s_stale' = [query_fails |-> query_fails,
                      stale |-> is_cluster_cache_stale(vault_notes, s_computed_at,
                                                       query_fails)]
    /\ s_pc' = "done"
    /\ UNCHANGED s_computed_at

StaleNext == StaleCall /\ UNCHANGED <<mvars, cvars, dbvars, svars, ovars, qvars, lvars, tvars, avars>>

SpecStale == StaleInit /\ [][StaleNext]_vars

\* payloads of the direct save calls
Payloads ==
    {[clusters |-> <<>>, edges |-> <<>>, method |-> PlainMethod("louvain")],
     [clusters |-> <<[id |-> 1]>>, edges |-> <<>>, method |-> PlainMethod("louvain")],
     [clusters |-> <<[id |-> 1]>>, edges |-> <<>>, method |-> PlainMethod("type_based")],
     [clusters |-> <<[id |-> 1], [id |-> 2]>>,
      edges |-> <<[from |-> 1, to |-> 2]>>,
      method |-> PlainMethod("umap_hdbscan")]}

\* one vault key, with or without its Vault node, and no cache node
CacheInit ==
    /\ m_graph = <<>> /\ m_emb = <<>> /\ m_final = NoResult /\ m_pc = "off"
    /\ c_notes = {} /\ c_mentions = {} /\ c_black = {} /\ c_info = NoResult
    /\ c_order = <<>> /\ c_hubs = <<>> /\ c_pick = NoResult /\ c_pc = "off"
    /\ o_call = NoResult /\ o_route = NoResult /\ o_pc = "off"
    /\ s_computed_at = NoResult /\ s_stale = NoResult /\ s_pc = "off"
    /\ vault_notes \in {<<>>, <<[updated_at |-> Stamp("utc", 0), embedding |-> FALSE]>>}
    /\ vault_mentions = {}
    /\ CLUSTERING_AVAILABLE = TRUE
    /\ now = 0
    /\ cache = NoCache
    /\ warm = <<>>
    /\ response = NoResponse
    /\ h_last = NoCache
    /\ q_got = NoResult
    /\ l_in = NoResult /\ l_out = NoResult /\ l_pc = "off"
    /\ t_entities = <<>> /\ t_clusters = NoResult /\ t_pc = "off"
    /\ a_args = NoResult /\ a_result = NoResult /\ a_pc = "off"

\* a direct call of save_cluster_cache
SaveCall ==
    \E payload \in Payloads : \E query_fails \in BOOLEAN :
        /\ cache' = save_cluster_cache(cache, vault_notes, payload.clusters,
                                       payload.method, payload.edges, now, query_fails)
        /\ h_last' = IF SaveReturns(vault_notes, query_fails)
                     THEN [payload |-> payload, at |-> now,
                           replaced |-> cache # NoCache /\ cache.clusters # payload.clusters]
                     ELSE h_last
        /\ q_got' = NoResult
        /\ UNCHANGED <<now, warm, response>>

\* a direct call of invalidate_cluster_cache
InvalidateCall ==
    \E query_fails \in BOOLEAN :
        /\ cache' = invalidate_cluster_cache(cache, query_fails)
        /\ h_last' = IF query_fails THEN h_last ELSE NoCache
        /\ q_got' = NoResult
        /\ UNCHANGED <<now, warm, response>>

\* a direct call of get_cached_clusters
GetCall ==
    /\ q_got' = [at |-> now, value |-> get_cached_clusters(cache, now, FALSE)]
    /\ UNCHANGED <<now, cache, warm, response, h_last>>

CacheNext ==
    \/ SaveCall /\ UNCHANGED <<mvars, cvars, dbvars, ovars, kvars, lvars, tvars, avars>>
    \/ InvalidateCall /\ UNCHANGED <<mvars, cvars, dbvars, ovars, kvars, lvars, tvars, avars>>
    \/ GetCall /\ UNCHANGED <<mvars, cvars, dbvars, ovars, kvars, lvars, tvars, avars>>
    \/ Tick /\ UNCHANGED <<mvars, cvars, ovars, pvars>>

SpecCache == CacheInit /\ [][CacheNext]_vars

MergeInit ==
    /\ l_in = NoResult /\ l_out = NoResult /\ l_pc = "off"
    /\ t_entities = <<>> /\ t_clusters = NoResult /\ t_pc = "off"
    /\ a_args = NoResult /\ a_result = NoResult /\ a_pc = "off"
    /\ h_last = NoCache /\ q_got = NoResult
    /\ s_computed_at = NoResult /\ s_stale = NoResult /\ s_pc = "off"
    /\ c_notes = {} /\ c_mentions = {} /\ c_black = {} /\ c_info = NoResult
    /\ c_order = <<>> /\ c_hubs = <<>> /\ c_pick = NoResult /\ c_pc = "off"
    /\ vault_notes = <<>> /\ vault_mentions = {} /\ CLUSTERING_AVAILABLE = TRUE
    /\ now = 0 /\ cache = NoCache /\ warm = <<>> /\ response = NoResponse
    /\ o_call = NoResult /\ o_route = NoResult /\ o_pc = "off"
    /\ m_graph \in ClusterDicts
    /\ m_emb \in ClusterDicts
    /\ m_final = NoResult
    /\ m_pc = "input"

MergeNext == MergeCall /\ UNCHANGED <<cvars, dbvars, svars, ovars, pvars>>

SpecMerge == MergeInit /\ [][MergeNext]_vars

CentralityInit ==
    /\ l_in = NoResult /\ l_out = NoResult /\ l_pc = "off"
    /\ t_entities = <<>> /\ t_clusters = NoResult /\ t_pc = "off"
    /\ a_args = NoResult /\ a_result = NoResult /\ a_pc = "off"
    /\ h_last = NoCache /\ q_got = NoResult
    /\ s_computed_at = NoResult /\ s_stale = NoResult /\ s_pc = "off"
    /\ m_graph = <<>> /\ m_emb = <<>> /\ m_final = NoResult /\ m_pc = "off"
    /\ vault_notes = <<>> /\ vault_mentions = {} /\ CLUSTERING_AVAILABLE = TRUE
    /\ now = 0 /\ cache = NoCache /\ warm = <<>> /\ response = NoResponse
    /\ o_call = NoResult /\ o_route = NoResult /\ o_pc = "off"
    /\ \E t \in 1..MaxWin : c_notes = 1..t
    /\ \E d \in 0..MaxWin : \E rest \in SUBSET ((1..MaxWin) \X (Ents \ {FirstEnt})) :
          c_mentions = {<<n, FirstEnt>> : n \in 1..d} \cup rest
    /\ \A m \in c_mentions : m[1] \in c_notes
    /\ c_black \in SUBSET Ents
    /\ c_info = NoResult
    /\ c_order = <<>>
    /\ c_hubs = <<>>
    /\ c_pick = NoResult
    /\ c_pc = "input"

CentralityNext ==
    \/ CentralityCall /\ UNCHANGED <<mvars, dbvars, svars, ovars, pvars>>
    \/ HubCall /\ UNCHANGED <<mvars, dbvars, svars, ovars, pvars>>
    \/ HubCallTopK /\ UNCHANGED <<mvars, dbvars, svars, ovars, pvars>>

SpecCentrality == CentralityInit /\ [][CentralityNext]_vars

(***************************************************************************)
(* Properties of the cache and the clustered-graph request (under Spec)    *)
(***************************************************************************)
\* an updated_at that denotes an instant later than the clock value t
LaterThan(updated_at, t) == updated_at.form # "empty" /\ updated_at.t > t

\* the validity of the stored entry: unexpired, and no note updated after it
\* was computed
CacheUsable ==
    /\ cache # NoCache
    /\ now < cache.expires_at
    /\ \A n \in DOMAIN vault_notes :
          ~LaterThan(vault_notes[n].updated_at, cache.computed_at)

\* C1: a request is answered from the cache only in a state where the entry
\* exists, now < expires_at and no note has an updated_at later than the
\* entry's computed_at; from every other state the request does not return the
\* cached payload (its answer is the recomputed result or an error).
C1_CacheServedOnlyWhenValid ==
    [][response'.via = "cache" => CacheUsable]_vars

\* a step in which warmup thread i writes its result to the cache
WritesResult(i) ==
    /\ i \in DOMAIN warm
    /\ warm[i].pc = "computed"
    /\ Len(warm') = Len(warm) - 1
    /\ cache' # NoCache
    /\ cache'.computed_at = now
    /\ cache'.clusters = warm[i].result.clusters
    /\ cache'.method = warm[i].result.method

\* C2: when a computation has read its notes, a note is then updated and the
\* cache invalidated while it runs, and the computation then saves its result,
\* the staleness check on the saved entry returns true.
C2_RacedSaveJudgedStale ==
    [][\A i \in 1..MaxWarm :
          (/\ WritesResult(i)
           /\ warm[i].updated_since_read
           /\ warm[i].invalidated_after_update)
          => is_cluster_cache_stale(vault_notes',
                                    ComputedAtString(cache'.computed_at), FALSE)]_vars

\* the updated_at strings of the vault are ISO instants with Z or an offset
\* and computed_at is the string the database returns
WellFormedStamps ==
    /\ s_computed_at.form = "utc"
    /\ \A n \in DOMAIN vault_notes : vault_notes[n].updated_at.form \in {"utc", "offset"}

\* C13: is_cluster_cache_stale returns true when computed_at is missing or
\* unparsable; otherwise true when the latest updated_at of the vault's notes
\* is strictly later than computed_at, and false when no note is later
\* (equality included) or the vault has no notes. The second part is stated
\* for well-formed ISO strings.
C13_StaleVerdict ==
    (s_pc = "done" /\ ~s_stale.query_fails) =>
        /\ s_computed_at.form \in {"empty", "text"} => s_stale.stale
        /\ WellFormedStamps =>
              (s_stale.stale <=>
                   \E n \in DOMAIN vault_notes :
                       vault_notes[n].updated_at.t > s_computed_at.t)

\* C15: a request carrying folder_prefix never returns a cached payload and
\* never writes, replaces or deletes the cache entry: while every request
\* carries folder_prefix, the cache entry stays as it is.
C15_FolderBypassesCache ==
    [][cache' = cache /\ response'.via # "cache"]_vars

\* C15 for the handler's own steps: the step that answers a request with
\* folder_prefix leaves the cache entry alone and answers from no cache
C15_HandlerBypassesCache ==
    [][response'.via # "none" => (cache' = cache /\ response'.via # "cache")]_vars

\* C16: while the cache node's data fails to deserialize, and when the cache
\* read itself fails, the request reports no cache hit and no error: it
\* recomputes and answers with the computed result.
C16_CorruptIsMiss ==
    [][/\ (cache # NoCache /\ ~cache.json /\ response'.via # "none")
            => response' = ComputedResponse
       /\ ReadFailRequest => response' = ComputedResponse]_vars

\* C16 witness: before the corrupt node expired, a request read the cache,
\* answered with a computed result and replaced the node by its result
C16_Witness ==
    /\ response = ComputedResponse
    /\ now < CorruptEntry.expires_at
    /\ cache # NoCache
    /\ cache.json
    /\ cache.computed_at = now

\* the nodes that share the community of u
CommunityOf(ids, u) == {v \in DOMAIN ids : ids[v] = ids[u]}

\* C17: on every path cluster_by_graph_louvain returns a community id >= 0
\* for every node; unless the library is unavailable a node with no incident
\* edge is alone in its community; when the library is unavailable all nodes
\* share one community.
C17_LouvainTotal ==
    l_pc = "done" =>
        /\ \A u \in SeqToSet(l_in.entity_uuids) :
              u \in DOMAIN l_out.ids /\ l_out.ids[u] \in Nat
        /\ l_in.NETWORKX_AVAILABLE =>
              \A u \in SeqToSet(l_in.entity_uuids) :
                 (\A e \in l_in.edges : e[1] # u /\ e[2] # u)
                     => CommunityOf(l_out.ids, u) = {u}
        /\ ~l_in.NETWORKX_AVAILABLE =>
              \A u, v \in SeqToSet(l_in.entity_uuids) : l_out.ids[u] = l_out.ids[v]

\* C17 witness: detection raised on a graph with an edge and a node without
\* edge, and three nodes got three communities
C17_Witness ==
    /\ l_pc = "done"
    /\ l_out.path = "failure"
    /\ Len(l_in.entity_uuids) = 3
    /\ \E u \in SeqToSet(l_in.entity_uuids) : \A e \in l_in.edges : e[1] # u /\ e[2] # u
    /\ Cardinality(Range(l_out.ids)) = 3

\* the normal and the unavailable path are taken too
C17_PathNormal ==
    l_pc = "done" /\ l_out.path = "normal" /\ Cardinality(Range(l_out.ids)) = 2

C17_PathUnavailable ==
    l_pc = "done" /\ l_out.path = "unavailable" /\ Len(l_in.entity_uuids) = 3

\* the partition of a result: the entity ids of each cluster, in list order
PartitionOf(out) ==
    IF out.raised THEN <<>>
    ELSE [i \in 1..Len(out.clusters) |-> out.clusters[i].entity_ids]

\* the hub selection of a result: the hubs of each cluster, in their order
\* (type-based clusters carry none)
HubsOf(out) ==
    IF out.raised THEN <<>>
    ELSE [i \in 1..Len(out.clusters) |->
             IF "hub_entities" \in DOMAIN out.clusters[i]
             THEN out.clusters[i].hub_entities ELSE <<>>]

C19_StatusEnum ==
    response # NoResponse => response.status \in {"success", "unavailable", "error"}

\* C19 without the warmup mode: cached, recomputed and forced requests
\* answer success, or error (HTTP 500)
C19_StatusEnumNoWarmup ==
    (response # NoResponse /\ response.via # "warmup")
        => response.status \in {"success", "error"}

\* the clusters whose name carries the given type tag
ClustersOfType(clusters, type) ==
    {i \in 1..Len(clusters) : clusters[i].name[1] = type}

\* the clusters that list the entity of the given row
ClustersListing(clusters, row) ==
    {i \in 1..Len(clusters) : row.entity_id \in SeqToSet(clusters[i].entity_ids)}

\* the mention counts of the rows of one type, summed
MentionsOfType(entities, type) ==
    SumMentionCount(FilterRows(entities, type))

\* one cluster per observed type tag, with the stated importance score
OnePerType ==
    /\ Len(t_clusters) = Cardinality({t_entities[i].type : i \in DOMAIN t_entities})
    /\ \A i \in DOMAIN t_entities :
          Cardinality(ClustersOfType(t_clusters, t_entities[i].type)) = 1
    /\ \A k \in 1..Len(t_clusters) :
          t_clusters[k].importance_score
              = RMin(Rat(10, 1),
                     Rat(MentionsOfType(t_entities, t_clusters[k].name[1]), 10))

\* C20: given at least one entity the type-based method returns exactly one
\* cluster per observed type tag, every entity is listed in the cluster of
\* its own type tag and in no other, and importance_score is
\* min(10, total_mentions / 10) over the mention counts of the type.
C20_TypeBased ==
    t_pc = "done" =>
        /\ OnePerType
        /\ \A i \in DOMAIN t_entities :
              ClustersListing(t_clusters, t_entities[i])
                  = ClustersOfType(t_clusters, t_entities[i].type)

\* C20 for entities that carry an id
C20_TypeBasedWithIds ==
    t_pc = "done" =>
        /\ OnePerType
        /\ \A i \in DOMAIN t_entities :
              t_entities[i].entity_id # NoEntityId =>
                 ClustersListing(t_clusters, t_entities[i])
                     = ClustersOfType(t_clusters, t_entities[i].type)

\* the capped and the uncapped importance score both occur
C20_ScoreCases ==
    /\ t_pc = "done"
    /\ Len(t_clusters) = 2
    /\ t_clusters[1].importance_score = Rat(10, 1)
    /\ RLess(t_clusters[2].importance_score, Rat(10, 1))

\* the edges of the result that join clusters i and j, in either direction
EdgesBetween(edges, clusters, i, j) ==
    {k \in 1..Len(edges) :
        \/ edges[k].from = clusters[i].id /\ edges[k].to = clusters[j].id
        \/ edges[k].from = clusters[j].id /\ edges[k].to = clusters[i].id}

\* C21: for every unordered pair of distinct clusters _build_cluster_edges
\* emits exactly one RELATED_TO edge, weighted with the number of shared
\* entity ids, when the clusters share an id, and none when they share none;
\* no edge joins a cluster to itself.
C21_SharedEntityEdges ==
    a_pc = "done" =>
        /\ \A i, j \in 1..Len(a_args.clusters) :
              i < j =>
                 IF EntitySet(a_args.clusters[i]) \cap EntitySet(a_args.clusters[j]) = {}
                 THEN EdgesBetween(a_result, a_args.clusters, i, j) = {}
                 ELSE \E k \in 1..Len(a_result) :
                         /\ EdgesBetween(a_result, a_args.clusters, i, j) = {k}
                         /\ a_result[k].relation_type = "RELATED_TO"
                         /\ a_result[k].weight
                               = Cardinality(EntitySet(a_args.clusters[i])
                                                \cap EntitySet(a_args.clusters[j]))
        /\ \A k \in 1..Len(a_result) : a_result[k].from # a_result[k].to

\* C21 witness: of three non-empty clusters two share two ids and get the
\* only edge, the third shares none with either
C21_Witness ==
    /\ a_pc = "done"
    /\ Len(a_args.clusters) = 3
    /\ \A i \in 1..3 : EntitySet(a_args.clusters[i]) # {}
    /\ Len(a_result) = 1
    /\ a_result[1].weight = 2

\* the types with the largest count of a type_counts dict
MostFrequent(type_counts) ==
    {type_counts[i][1] : i \in {k \in 1..Len(type_counts) :
                                  \A j \in 1..Len(type_counts) :
                                     type_counts[j][2] <= type_counts[k][2]}}

\* C22: with two hubs or more the name is "hub1 & hub2" of the two
\* highest-ranked hubs, with one hub the single-hub form naming it, with no
\* hub "<dominant type> Cluster" for the most frequent type tag.
C22_ClusterName ==
    a_pc = "done" =>
        /\ Len(a_args.hub_entities) >= 2
              => a_result = <<a_args.hub_entities[1], "&", a_args.hub_entities[2]>>
        /\ Len(a_args.hub_entities) = 1
              => a_result = <<a_args.hub_entities[1], "center">>
        /\ (Len(a_args.hub_entities) = 0 /\ a_args.type_counts # <<>>)
              => \E t \in MostFrequent(a_args.type_counts) :
                    a_result = <<TypeTitle(t), "Cluster">>

\* C22 witness: no hub, and the most frequent type is not the first key
C22_Witness ==
    /\ a_pc = "done"
    /\ a_args.hub_entities = <<>>
    /\ Len(a_args.type_counts) = 3
    /\ a_args.type_counts[1][2] < a_args.type_counts[2][2]
    /\ a_result = <<TypeTitle(a_args.type_counts[2][1]), "Cluster">>

\* the names with hubs occur too
C22_TwoHubs == a_pc = "done" /\ Len(a_args.hub_entities) = 3 /\ Len(a_result) = 3

\* the ids that share the graph cluster of u, u itself left out, and that
\* the first pass resolved
ResolvedPeers(u) ==
    {p \in DOMAIN m_graph :
        /\ p # u
        /\ m_graph[p] = m_graph[u]
        /\ MergeFirstPass(m_graph, m_emb)[p] >= 0}

\* how many of the resolved peers of u the first pass put in cluster c
PeerCount(u, c) ==
    Cardinality({p \in ResolvedPeers(u) : MergeFirstPass(m_graph, m_emb)[p] = c})

C23_SecondPassIdle ==
    m_pc = "done" =>
        /\ \A u \in DOMAIN m_graph :
              MergeFirstPass(m_graph, m_emb)[u] = NOISE => m_graph[u] < 0
        /\ \A o \in Orderings((DOMAIN m_graph) \cup (DOMAIN m_emb)) :
           \A g \in Orderings(DOMAIN m_graph) :
              MergeNoisePass(MergeFirstPass(m_graph, m_emb),
                             FilterSeq(o, {u \in DOMAIN MergeFirstPass(m_graph, m_emb) :
                                              MergeFirstPass(m_graph, m_emb)[u] = NOISE}),
                             m_graph, g)
                 = MergeFirstPass(m_graph, m_emb)

\* C23: an unresolved id with a resolved peer under the same graph label
\* ends in a singleton id
C23_PeerIgnored ==
    /\ m_pc = "done"
    /\ \E u \in DOMAIN m_graph :
          /\ MergeFirstPass(m_graph, m_emb)[u] = NOISE
          /\ ResolvedPeers(u) # {}
          /\ \A v \in DOMAIN m_final : v # u => m_final[v] # m_final[u]

\* the tier the spec gives a hub score: high from 0.7, medium from 0.4
SpecTier(hub_score) ==
    IF RLeq(Rat(7, 10), hub_score) THEN "high"
    ELSE IF RLeq(Rat(4, 10), hub_score) THEN "medium"
    ELSE "low"

\* C24: _build_graph_insights returns at most 5 bullets, and with a hub the
\* first bullet tiers the top hub high for a score >= 0.7, medium for
\* 0.4 <= score < 0.7, low otherwise.
C24_InsightTiers ==
    a_pc = "done" =>
        /\ Len(a_result) <= 5
        /\ a_args.hub_entities # <<>>
              => a_result[1] = <<"hub", SpecTier(a_args.hub_entities[1][3]),
                                 a_args.hub_entities[1][2]>>

\* C24: at most 5 bullets, and the tiers with the thresholds exclusive as the
\* code compares them: high above 0.7, medium above 0.4 up to 0.7
C24_InsightTiersStrict ==
    a_pc = "done" =>
        /\ Len(a_result) <= 5
        /\ a_args.hub_entities # <<>>
              => /\ a_result[1][1] = "hub"
                 /\ a_result[1][2] = "high"
                       <=> RLess(Rat(7, 10), a_args.hub_entities[1][3])
                 /\ a_result[1][2] = "medium"
                       <=> /\ RLess(Rat(4, 10), a_args.hub_entities[1][3])
                           /\ RLeq(a_args.hub_entities[1][3], Rat(7, 10))
                 /\ a_result[1][2] \in {"high", "medium", "low"}

\* C24: a top hub with score exactly 0.7 is tiered medium, in a list of 5
\* bullets
C24_AtThreshold ==
    /\ a_pc = "done"
    /\ Len(a_result) = 5
    /\ a_args.hub_entities[1][3] = Rat(7, 10)
    /\ a_result[1][2] = "medium"

\* the mean of the scores as sum over count
MeanOf(scores) == Rat(SumScores(scores).n, SumScores(scores).d * Len(scores))

\* C25: importance_score lies in [0, 10]; on the semantic path it is
\* min(10, 8 * average centrality + recency bonus) with the recency bonus in
\* [0, 3], also for a latest update in the future or no parsed date; on the
\* type-based path it is min(10, total_mentions / 10).
C25_ImportanceBounds ==
    a_pc = "done" =>
        /\ RLeq(RZero, a_result.importance_score)
        /\ RLeq(a_result.importance_score, Rat(10, 1))
        /\ a_args.path = "semantic"
              => /\ RLeq(RZero, a_result.recency_bonus)
                 /\ RLeq(a_result.recency_bonus, Rat(3, 1))
                 /\ LET raw == RAdd(RMul(Rat(8, 1), MeanOf(a_args.scores)),
                                    a_result.recency_bonus)
                    IN a_result.importance_score
                          = IF RLeq(raw, Rat(10, 1)) THEN raw ELSE Rat(10, 1)
        /\ a_args.path = "type"
              => a_result.importance_score
                    = IF a_args.total_mentions >= 100 THEN Rat(10, 1)
                      ELSE Rat(a_args.total_mentions, 10)

\* C25 witness: the latest update is an hour in the future, the bonus is 3
\* and the score is capped at 10
C25_Witness ==
    /\ a_pc = "done"
    /\ a_args.path = "semantic"
    /\ \E i \in DOMAIN a_args.updates : a_args.updates[i].t > ScoreClock
    /\ a_result.recency_bonus = Rat(3, 1)
    /\ a_result.importance_score = Rat(10, 1)

\* C25: no date parses, the bonus is 0 and the score is below the cap
C25_NoDate ==
    /\ a_pc = "done"
    /\ a_args.path = "semantic"
    /\ Len(a_args.updates) = 2
    /\ \A i \in DOMAIN a_args.updates : a_args.updates[i].kind = "none"
    /\ a_result.recency_bonus = RZero
    /\ a_result.importance_score = Rat(12, 5)

\* C25: the type-based score below and at the cap
C25_TypeCap ==
    /\ a_pc = "done"
    /\ a_args.path = "type"
    /\ a_args.total_mentions = 250
    /\ a_result.importance_score = Rat(10, 1)

\* the background threads whose computation is pending or running
PendingWarmups == {i \in DOMAIN warm : warm[i].pc = "submitted"}

\* C26: while a warmup computation of the vault is pending or running, a
\* further warmup request starts no second one: at most one warmup
\* computation is pending or running at any time.
C26_SingleWarmup == Cardinality(PendingWarmups) <= 1

\* C26: a warmup request never adds more than its own thread, and it is
\* answered "warming_up" whether or not a thread was alive
C26_EveryRequestSubmits ==
    [][response' = WarmupResponse
          => /\ Len(warm') = Len(warm) + 1
             /\ warm'[Len(warm')].pc = "submitted"]_vars

\* C26: two computations are pending at once
C26_TwoPending == Cardinality(PendingWarmups) = 2 /\ response = WarmupResponse

\* the pkm_type of the cluster of a result with the given id
TypeOfId(result, id) ==
    result.clusters[CHOOSE i \in DOMAIN result.clusters :
                       result.clusters[i].id = id].pkm_type

\* C27: the relation_type of each inter-cluster edge is the edge_type of the
\* table row for (type of its from cluster, type of its to cluster), and it is
\* "RELATES_TO" exactly when the table has no row for that ordered pair;
\* infer_semantic_edge_type returns a non-empty edge_type for every pair of
\* types and reads a missing type as Topic.
C27_RelationType ==
    a_pc = "done" =>
        /\ a_args.call = "hybrid"
              => \A i \in DOMAIN a_result.edges :
                    LET e == a_result.edges[i]
                        ft == TypeOfId(a_result, e.from)
                        tt == TypeOfId(a_result, e.to)
                    IN /\ e.from # e.to
                       /\ (\E r \in MatrixRows : r[1] = ft /\ r[2] = tt)
                             => <<ft, tt, e.relation_type>> \in MatrixRows
                       /\ e.relation_type = "RELATES_TO"
                             <=> ~\E r \in MatrixRows : r[1] = ft /\ r[2] = tt
        /\ a_args.call = "infer"
              => /\ a_result.edge_type # ""
                 /\ \A ft, tt \in SeqToSet(PKM_TYPES) :
                       (/\ a_args.from_type \in {ft, IF ft = "Topic" THEN NoType ELSE ft}
                        /\ a_args.to_type \in {tt, IF tt = "Topic" THEN NoType ELSE tt})
                          => \/ <<ft, tt, a_result.edge_type>> \in MatrixRows
                             \/ /\ a_result.edge_type = "RELATES_TO"
                                /\ ~\E r \in MatrixRows : r[1] = ft /\ r[2] = tt

\* C27 witness: two edges between the same two clusters make one edge of
\* weight 2 whose relation_type comes from the table
C27_Witness ==
    /\ a_pc = "done"
    /\ a_args.call = "hybrid"
    /\ Len(a_result.edges) = 1
    /\ a_result.edges[1].weight = 2
    /\ a_result.edges[1].from = <<"cluster", "goal">>
    /\ a_result.edges[1].to = <<"cluster", "task">>
    /\ a_result.edges[1].relation_type = "REQUIRES"

\* C27: an edge whose ordered pair has no row is generic
C27_Generic ==
    /\ a_pc = "done"
    /\ a_args.call = "hybrid"
    /\ Len(a_result.edges) = 1
    /\ a_result.edges[1].from = <<"cluster", "goal">>
    /\ a_result.edges[1].to = <<"cluster", "insight">>
    /\ a_result.edges[1].relation_type = "RELATES_TO"

\* C27: a missing type is read as Topic
C27_MissingType ==
    /\ a_pc = "done"
    /\ a_args.call = "infer"
    /\ a_args.from_type = NoType
    /\ a_args.to_type = "Concept"
    /\ a_result.edge_type = "CONTAINS"

\* the places (cluster, position) of a result that list the uuid
PlacesOf(result, u) ==
    {p \in (DOMAIN result.clusters) \X (1..Cardinality(EntityUuids)) :
        /\ p[2] \in DOMAIN result.clusters[p[1]].entity_uuids
        /\ result.clusters[p[1]].entity_uuids[p[2]] = u}

\* C29: with at least one entity fetched, compute_entity_clusters_hybrid
\* returns 8 clusters in the order Goal, Project, Task, Topic, Concept,
\* Question, Insight, Resource, every fetched entity is listed by exactly one
\* of them, the one of its type, Person and unknown or missing types going
\* to Topic, and clustered_entities equals total_entities.
C29_EightClusters ==
    (a_pc = "done" /\ a_args.call = "hybrid" /\ a_args.entities # <<>>) =>
        /\ Len(a_result.clusters) = 8
        /\ [i \in 1..8 |-> a_result.clusters[i].pkm_type]
              = <<"Goal", "Project", "Task", "Topic", "Concept", "Question",
                  "Insight", "Resource">>
        /\ \A i \in DOMAIN a_args.entities :
              /\ Cardinality(PlacesOf(a_result, a_args.entities[i].uuid)) = 1
              /\ \A p \in PlacesOf(a_result, a_args.entities[i].uuid) :
                    a_result.clusters[p[1]].pkm_type
                       = IF a_args.entities[i].pkm_type \in {"Person", "Event", NoType}
                         THEN "Topic"
                         ELSE a_args.entities[i].pkm_type
        /\ a_result.clustered_entities = a_result.total_entities
        /\ a_result.total_entities = Len(a_args.entities)

\* C29 witness: a Person and an entity without type both land in Topic, the
\* other seven clusters are empty
C29_Witness ==
    /\ a_pc = "done"
    /\ a_args.call = "hybrid"
    /\ Len(a_args.entities) = 2
    /\ a_args.entities[1].pkm_type = "Person"
    /\ a_args.entities[2].pkm_type = NoType
    /\ Len(a_result.clusters) = 8
    /\ a_result.clusters[4].entity_count = 2
    /\ \A i \in (1..8) \ {4} : a_result.clusters[i].entity_uuids = <<>>

\* C29: without entities the result has no cluster
C29_NoEntity ==
    /\ a_pc = "done"
    /\ a_args.call = "hybrid"
    /\ a_args.entities = <<>>
    /\ a_result.clusters = <<>>

\* C28: a result of compute_clusters_semantic with method "umap_hdbscan" has
\* at least one cluster, pairwise distinct cluster ids none of which is the
\* id of the noise label, and in every cluster at least one entity and 1 to
\* 3 hub entities that are entity_ids of the cluster.
C28_SemanticShape ==
    (o_pc = "done" /\ o_call # NoResult /\ ~o_call.out.raised /\ o_call.out.method.tag = "umap_hdbscan") =>
        /\ Len(o_call.out.clusters) >= 1
        /\ \A i, k \in DOMAIN o_call.out.clusters :
              i # k => o_call.out.clusters[i].id # o_call.out.clusters[k].id
        /\ \A i \in DOMAIN o_call.out.clusters :
              /\ o_call.out.clusters[i].id # NOISE + 1
              /\ Len(o_call.out.clusters[i].entity_ids) >= 1
              /\ o_call.out.clusters[i].node_count >= 1
              /\ Len(o_call.out.clusters[i].hub_entities) \in 1..3
              /\ SeqToSet(o_call.out.clusters[i].hub_entities)
                    \subseteq SeqToSet(o_call.out.clusters[i].entity_ids)

\* C28 witness: hdbscan found two clusters, the notes of one of them mention
\* no entity, and the result is the one cluster of the other, with 3 hubs
C28_Witness ==
    /\ o_pc = "done"
    /\ o_call # NoResult
    /\ ~o_call.out.raised
    /\ o_call.out.method.tag = "umap_hdbscan"
    /\ o_call.out.triggers = <<>>
    /\ Len(o_call.out.clusters) = 1
    /\ o_call.out.clusters[1].id = 2
    /\ Len(o_call.out.clusters[1].hub_entities) = 3

\* C28: a result with two clusters
C28_TwoClusters ==
    /\ o_pc = "done"
    /\ o_call # NoResult
    /\ ~o_call.out.raised
    /\ o_call.out.method.tag = "umap_hdbscan"
    /\ Len(o_call.out.clusters) = 2
    /\ Len(o_call.out.clusters[1].hub_entities) = 1

\* the keys the store holds
HeldKeys(result) == {result.store[i].key : i \in DOMAIN result.store}

\* the key of the store whose last set or successful read is the oldest
LeastRecentlyUsed(result) ==
    CHOOSE k \in HeldKeys(result) :
        \A j \in HeldKeys(result) : result.used[k] <= result.used[j]

\* a step that is a call of set
SetStep == a_pc = "cache" /\ a_result'.ops = a_result.ops + 1 /\ a_result'.last.op = "set"

\* C30: the store never holds more than maxsize entries
C30_Bounded == a_pc = "cache" => Len(a_result.store) <= a_args.maxsize

\* C30: the store never holds more than maxsize entries; a set of a new key
\* on a full store evicts exactly one entry, the least recently set or
\* successfully read one, and a set of an existing key evicts none.
C30_LruEviction ==
    /\ [](a_pc = "cache" => Len(a_result.store) <= a_args.maxsize)
    /\ [][SetStep =>
            /\ a_result'.last.key \in HeldKeys(a_result)
                  => HeldKeys(a_result') = HeldKeys(a_result)
            /\ (/\ a_result'.last.key \notin HeldKeys(a_result)
                /\ Len(a_result.store) = a_args.maxsize)
                  => HeldKeys(a_result')
                        = (HeldKeys(a_result) \ {LeastRecentlyUsed(a_result)})
                             \cup {a_result'.last.key}
            /\ (/\ a_result'.last.key \notin HeldKeys(a_result)
                /\ Len(a_result.store) < a_args.maxsize)
                  => HeldKeys(a_result') = HeldKeys(a_result) \cup {a_result'.last.key}]_vars

\* C30 witness: a set on a full store of two evicted the entry that was set
\* last, because the older one had been read since
C30_Witness ==
    /\ a_pc = "cache"
    /\ a_args.maxsize = 2
    /\ a_result.last = [op |-> "set", key |-> "b:1"]
    /\ HeldKeys(a_result) = {"a:1", "b:1"}
    /\ a_result.born["a:1"] = 1
    /\ a_result.used["a:1"] = 3
    /\ a_result.ops = 4

\* what the last save that returned True and came after the last invalidate
\* lets a get at the given clock return
Expected(last, clock) ==
    IF last = NoCache THEN NoCache
    ELSE IF clock >= last.at + TtlHours THEN NoCache
    ELSE [clusters |-> last.payload.clusters,
          edges |-> last.payload.edges,
          computed_at |-> ComputedAtString(last.at),
          method |-> last.payload.method]

\* C14: after any sequence of save_cluster_cache and invalidate_cluster_cache
\* calls, get_cached_clusters returns the clusters, edges and method of the
\* most recent save if it came after the last invalidate and its TTL has not
\* elapsed, and None otherwise.
C14_LastWriterWins ==
    (q_got # NoResult /\ q_got.at = now) => q_got.value = Expected(h_last, now)

\* C14 witness: a get returns the payload of a save that replaced the
\* different payload of an earlier save.
C14_Witness ==
    /\ q_got # NoResult
    /\ q_got.at = now
    /\ q_got.value # NoCache
    /\ h_last # NoCache
    /\ h_last.replaced
    /\ q_got.value.clusters = h_last.payload.clusters

(***************************************************************************)
(* Properties of the fallback chain (checked under SpecOrch)               *)
(***************************************************************************)
Last(s) == s[Len(s)]

\* the first trigger of the run is one of the three SEMANTIC preconditions
PreconditionFailed(out) ==
    /\ out.triggers # <<>>
    /\ out.triggers[1] \in {"dependency_missing", "no_embeddings",
                            "insufficient_samples"}

EntitiesInScope(folder_prefix) ==
    {e \in Ents : MentionCount(vault_notes, vault_mentions, folder_prefix, e) > 0}

SemanticCalled == o_pc = "done" /\ o_call # NoResult
ComputeCalled == o_pc = "done" /\ o_route # NoResult

GroupsByType(clusters, folder_prefix) ==
    LET types == {EntityType[e] : e \in EntitiesInScope(folder_prefix)}
    IN /\ Len(clusters) = Cardinality(types)
       /\ \A t \in types : \E i \in 1..Len(clusters) :
             SeqToSet(clusters[i].entity_ids)
                 = {e \in EntitiesInScope(folder_prefix) : EntityType[e] = t}

\* the number of clusters of the result whose entity_ids hold e
ClustersHolding(clusters, e) ==
    Cardinality({i \in 1..Len(clusters) : e \in SeqToSet(clusters[i].entity_ids)})

\* C12: the clusters of a returned orchestration result partition the entity
\* ids of the input; stated here is the non-overlap half of the claim: no
\* entity id is in the entity_ids of two clusters of the result.
C12_Partition ==
    (SemanticCalled /\ ~o_call.out.raised) =>
        \A e \in Ents : ClustersHolding(o_call.out.clusters, e) <= 1

\* the coverage half of C12: every entity mentioned by a note in scope is in
\* the entity_ids of some cluster of the result
C12_Coverage ==
    (SemanticCalled /\ ~o_call.out.raised) =>
        \A e \in EntitiesInScope(o_call.folder_prefix) :
            ClustersHolding(o_call.out.clusters, e) >= 1

\* C4: the method the caller of the request's compute section receives is the
\* fallback tag with the reason of the trigger that fired; with 3 embeddings
\* the reason is insufficient_samples and the clusters are the groups by type.
C4_ProvenanceTag ==
    (ComputeCalled /\ ~o_route.out.raised /\ o_route.out.triggers # <<>>) =>
        /\ o_route.out.method = FallbackMethod(Last(o_route.out.triggers))
        /\ (/\ Cardinality(EmbeddedNotes(vault_notes, o_route.folder_prefix)) = 3
            /\ o_route.out.triggers = <<"insufficient_samples">>)
           => /\ o_route.out.method.reason = "insufficient_samples"
              /\ GroupsByType(o_route.out.clusters, o_route.folder_prefix)

\* C5: if an invocation of compute_clusters_louvain raised during the call,
\* the call raised and that invocation was the only one.
C5_TerminalThrowPropagates ==
    SemanticCalled =>
        ((\E k \in DOMAIN o_call.out.invocations : o_call.out.invocations[k])
            => /\ o_call.out.raised
               /\ Len(o_call.out.invocations) = 1)

(***************************************************************************)
(* Properties of the centrality scorer (checked under SpecCentrality)      *)
(***************************************************************************)
Degree(e) == Cardinality(ConnectedNotes(c_notes, c_mentions, e))

IndexOf(s, x) == CHOOSE i \in 1..Len(s) : s[i] = x

\* C9: every entity scored by compute_entity_graph_centrality has
\* 0 <= centrality_score <= 1, for every window and mention relation.
C9_ScoreBounds ==
    c_pc \in {"scored", "done"} =>
        \A e \in DOMAIN c_info :
            /\ RLeq(RZero, c_info[e].centrality_score)
            /\ RLeq(c_info[e].centrality_score, ROne)

\* C9 witness: a scored window holds an entity mentioned by every note of a
\* window of at least 3 notes that co-occurs with the most partners (all four
\* terms at their largest), beside a blacklisted entity.
C9_Witness ==
    /\ c_pc = "scored"
    /\ \E e \in DOMAIN c_info :
          /\ Cardinality(c_notes) >= 3
          /\ c_info[e].degree = Cardinality(c_notes)
          /\ c_info[e].co_occurrence_score = ROne
          /\ c_info[e].bridge_score = ROne
          /\ ~c_info[e].is_generic
    /\ \E f \in DOMAIN c_info : c_info[f].is_generic

Score(e) == c_info[e].centrality_score

Min(a, b) == IF a <= b THEN a ELSE b

NonGeneric == {e \in DOMAIN c_info : ~c_info[e].is_generic}

\* hubs[from..to] are entities of pool, in descending score order, and no
\* entity of pool left out of them has a higher score than one of them
TopOfPool(hubs, from, to, pool) ==
    /\ \A i \in from..to : hubs[i] \in pool
    /\ \A i, j \in from..to : i < j => RLeq(Score(hubs[j]), Score(hubs[i]))
    /\ \A i \in from..to :
          \A e \in pool \ {hubs[j] : j \in from..to} : RLeq(Score(e), Score(hubs[i]))

\* C11: find_cluster_hub_entities returns min(top_k, number of entities) hubs
\* without repetition: first the non-denylisted entities in descending score
\* order, then (only when fewer than top_k of those exist) denylisted
\* entities in descending score order.
C11_HubSelection ==
    c_pc = "picked" =>
        LET hubs == c_pick.hubs
            n == Min(c_pick.top_k, Cardinality(NonGeneric))
        IN /\ Len(hubs) = Min(c_pick.top_k, Cardinality(DOMAIN c_info))
           /\ \A i, j \in 1..Len(hubs) : i # j => hubs[i] # hubs[j]
           /\ TopOfPool(hubs, 1, n, NonGeneric)
           /\ TopOfPool(hubs, n + 1, Len(hubs), DOMAIN c_info \ NonGeneric)

\* C11 witness: top_k = 2 with one non-denylisted and two denylisted
\* entities: the non-denylisted one comes first and one denylisted entity
\* fills the second place.
C11_Witness ==
    /\ c_pc = "picked"
    /\ c_pick.top_k = 2
    /\ c_pick.exclude_generic
    /\ Cardinality(NonGeneric) = 1
    /\ Cardinality(DOMAIN c_info) = 3
    /\ Len(c_pick.hubs) = 2
    /\ c_pick.hubs[1] \in NonGeneric
    /\ c_pick.hubs[2] \notin NonGeneric

\* C10: in a window of 4 notes with A mentioned by all 4 and B by exactly 2,
\* neither blacklisted, B scores higher than A and precedes A in the hubs.
C10_RareBeatsUbiquitous ==
    (/\ c_pc = "done"
     /\ Cardinality(c_notes) = 4
     /\ Degree("A") = 4
     /\ Degree("B") = 2
     /\ "A" \notin c_black
     /\ "B" \notin c_black)
    => /\ RLess(c_info["A"].centrality_score, c_info["B"].centrality_score)
       /\ IndexOf(c_hubs, "B") < IndexOf(c_hubs, "A")

(***************************************************************************)
(* Properties of merge_cluster_assignments (checked under SpecMerge)       *)
(***************************************************************************)
EmbPlaced(u) == DictGet(m_emb, u) >= 0
GraphPlaced(u) == DictGet(m_emb, u) < 0 /\ DictGet(m_graph, u) >= 0
Unresolved(u) == DictGet(m_emb, u) < 0 /\ DictGet(m_graph, u) < 0

\* C6: the returned map is defined exactly on the union of the two key sets
\* and every value is >= 0 (the marker -1 never survives).
C6_TotalNonNegative ==
    m_pc = "done" =>
        /\ DOMAIN m_final = (DOMAIN m_graph) \cup (DOMAIN m_emb)
        /\ \A u \in DOMAIN m_final : m_final[u] >= 0

\* C6 witness: a merge has returned for an input with an id that is noise in
\* the embedding map and has no usable graph cluster (the transient -1 case).
C6_Witness ==
    /\ m_pc = "done"
    /\ \E u \in DOMAIN m_final : Unresolved(u)
    /\ \E u \in DOMAIN m_final : EmbPlaced(u)

\* C7: every id whose embedding cluster is >= 0 keeps it as its final id,
\* whatever its graph cluster is and whether or not it has one.
C7_EmbeddingWins ==
    m_pc = "done" =>
        \A u \in DOMAIN m_emb : m_emb[u] >= 0 => m_final[u] = m_emb[u]

\* C7 witness: embedding cluster 2 and no graph cluster gives final 2, next to
\* an id that has both an embedding cluster and a different graph cluster.
C7_Witness ==
    /\ m_pc = "done"
    /\ \E u \in DOMAIN m_emb :
          /\ m_emb[u] = 2 /\ u \notin DOMAIN m_graph /\ m_final[u] = 2
    /\ \E v \in (DOMAIN m_emb) \cap (DOMAIN m_graph) :
          /\ m_emb[v] >= 0 /\ m_graph[v] >= 0 /\ m_graph[v] # m_emb[v]

\* C8: the three id spaces never collide. A graph-placed id gets
\* graph_cluster + (largest embedding cluster id) + 1, differs from every
\* embedding-derived final id and shares its final id exactly with the ids
\* placed by the same graph cluster; an id unresolved in both inputs gets a
\* final id no other id has.
C8_DisjointIdSpaces ==
    m_pc = "done" =>
        /\ \A u \in DOMAIN m_final : GraphPlaced(u) =>
              /\ DOMAIN m_emb # {} =>
                    m_final[u] = m_graph[u] + SetMax(Range(m_emb)) + 1
              /\ \A v \in DOMAIN m_final : EmbPlaced(v) => m_final[v] # m_final[u]
              /\ \A v \in DOMAIN m_final : GraphPlaced(v) =>
                    (m_final[v] = m_final[u] <=> m_graph[v] = m_graph[u])
        /\ \A u \in DOMAIN m_final : Unresolved(u) =>
              \A v \in (DOMAIN m_final) \ {u} : m_final[v] # m_final[u]

\* C8 witness: a merge has returned with a graph-placed id beside an
\* embedding-placed id whose cluster id is at least the graph cluster id + 1.
C8_Witness ==
    /\ m_pc = "done"
    /\ \E u, v \in DOMAIN m_final :
          /\ GraphPlaced(u) /\ EmbPlaced(v)
          /\ m_emb[v] >= m_graph[u] + 1

\* C8 second case: two ids unresolved in both inputs received their ids.
C8_SingletonsReached ==
    /\ m_pc = "done"
    /\ \E u, v \in DOMAIN m_final : u # v /\ Unresolved(u) /\ Unresolved(v)

====
